---------------------------- MODULE Spec2Model ----------------------------
(***************************************************************************)
(* Model of the Apito MCP server: the field-definition parser              *)
(* (schema-parser.ts), the type resolver (field-resolver.ts), the GraphQL  *)
(* client (graphql-client.ts) and the tool / resource handlers of          *)
(* ApitoMCPServer (index.ts), the schema mutation orchestrator             *)
(* (create_schema_from_definition of README.md) that sequences them, and   *)
(* the Cloudflare worker (worker.ts) with its cache of servers.            *)
(*                                                                         *)
(* JavaScript strings that the code inspects character by character are    *)
(* sequences of one-character strings; an optional value (undefined or a   *)
(* value) is the empty sequence or a one-element sequence.                 *)
(***************************************************************************)
EXTENDS Integers, Sequences, FiniteSets, TLC

VARIABLES
    client,     \* ApitoMCPServer.client is set (not null)
    request,    \* the MCP request answered last
    response,   \* the JSON-RPC response given to it
    sent,       \* the remote requests issued while answering it, in order
    remote,     \* what the remote system answers to a request of this call
    fieldDefs,  \* the field-definition strings given to the parser
    shapes,     \* for each of them, the form it was written in
    parsed,     \* what the parser returned, or the error it threw
    pop,        \* the parser operation that produced it
    run,        \* the orchestration run: its step, its input and what is left
    calls,      \* the remote calls the run emitted, in order, with their outcome
    resolution, \* the resolver call made last: its arguments and its result
    operations, \* the model name given to the naming deriver and its result
    serverCache, \* worker.ts serverCache: the entries (cache key, server)
    servers,    \* the ApitoMCPServer instances constructed, in order
    fetched     \* the worker request answered last and its response

toolVars == <<client, request, response, sent, remote>>
parserVars == <<fieldDefs, shapes, parsed, pop>>
orchVars == <<run, calls>>
pureVars == <<resolution, operations>>
workerVars == <<serverCache, servers, fetched>>
vars == <<client, request, response, sent, remote, fieldDefs, shapes, parsed, pop,
          run, calls, resolution, operations, serverCache, servers, fetched>>

-----------------------------------------------------------------------------
(* Bounds *)

MaxNameLen == 4
MaxDefLen == 5
MaxKids == 2
MaxDefs == 3
MaxWords == 2
MaxServers == 2

-----------------------------------------------------------------------------
(* JavaScript values *)

None == <<>>
Some(v) == <<v>>
IsSome(o) == o # <<>>
Val(o) == o[1]

UpperChars == <<"A","B","C","D","E","F","G","H","I","J","K","L","M",
                "N","O","P","Q","R","S","T","U","V","W","X","Y","Z">>
LowerChars == <<"a","b","c","d","e","f","g","h","i","j","k","l","m",
                "n","o","p","q","r","s","t","u","v","w","x","y","z">>
Digits == {"0","1","2","3","4","5","6","7","8","9"}

\* JavaScript truthiness of an optional enumeration string ("" is falsy)
TruthyText(o) == IsSome(o) /\ Val(o) # ""
IfTruthyText(o) == IF TruthyText(o) THEN o ELSE None

\* JavaScript truthiness of an optional character string ("" is falsy)
TruthyChars(o) == IsSome(o) /\ Len(Val(o)) > 0
IfTruthyChars(o) == IF TruthyChars(o) THEN o ELSE None

\* String.prototype.toLowerCase, one character
LowerChar(c) ==
    IF \E i \in 1..26 : UpperChars[i] = c
    THEN LowerChars[CHOOSE i \in 1..26 : UpperChars[i] = c]
    ELSE c

\* String.prototype.toLowerCase
toLowerCase(s) == [i \in 1..Len(s) |-> LowerChar(s[i])]

\* all sequences over S of length 0..n
SeqsUpTo(S, n) == UNION { [1..k -> S] : k \in 0..n }


-----------------------------------------------------------------------------
(* Remote system: what one GraphQLClient.request call comes back with *)

\* "ok": data without errors; "errors": a response carrying errors;
\* "clientError": a thrown error with .response; "networkError": a thrown
\* error with a message only; "opaque": a thrown value without a message
NetKinds == {"ok", "errors", "clientError", "networkError", "opaque"}

\* the projectModelsInfo payloads of a discovery query: the field missing,
\* or a list of zero, one or two models
ModelA == [name |-> <<"t","a","s","k">>, fields |-> 2]
ModelB == [name |-> <<"n","o","t","e">>, fields |-> 0]
DiscoveryData == {None, Some(<<>>), Some(<<ModelA>>), Some(<<ModelA, ModelB>>)}

\* the payload of a mutation: the echoed field missing, or a list of models
MutationData == {None, Some(<<>>), Some(<<ModelA>>)}

-----------------------------------------------------------------------------
(* graphql-client.ts *)

\* what a call returns: a value, or a thrown Error with its message, and the
\* remote requests it sent
Return(v, reqs) == [threw |-> FALSE, value |-> v, message |-> "", sent |-> reqs]
Throw(msg, reqs) == [threw |-> TRUE, value |-> None, message |-> msg, sent |-> reqs]

\* execute returning the data of the response without looking at its errors
\* and without throwing when the request fails
execute_IgnoreFailure(query, variables, net) ==
    Return(net.data, <<[query |-> query, variables |-> variables]>>)

\* ApitoGraphQLClient.execute: one client.request; errors in the response
\* are thrown inside the try block and so are re-wrapped by the catch block
execute(query, variables, net) ==
    LET req == [query |-> query, variables |-> variables]
    IN  CASE net.kind = "ok" -> Return(net.data, <<req>>)
          [] net.kind = "errors" -> Throw("Request failed: GraphQL errors", <<req>>)
          [] net.kind = "clientError" -> Throw("GraphQL request failed", <<req>>)
          [] net.kind = "networkError" -> Throw("Request failed", <<req>>)
          [] OTHER -> Throw("Request failed", <<req>>)

\* ApitoGraphQLClient.addModelToProject
addModelToProject(name, singleRecord, net) ==
    execute("AddModelToProject", [name |-> name, single_record |-> singleRecord], net)

\* ApitoGraphQLClient.upsertFieldToModel: optional variables are set only when
\* given (strings when truthy, booleans and numbers when not undefined)
upsertFieldToModel(modelName, fieldLabel, fieldType, inputType, options, net) ==
    LET variables ==
            [model_name |-> modelName,
             field_label |-> fieldLabel,
             field_type |-> fieldType,
             input_type |-> inputType,
             field_sub_type |-> IfTruthyText(options.fieldSubType),
             parent_field |-> IfTruthyChars(options.parentField),
             is_object_field |-> options.isObjectField,
             is_update |-> options.isUpdate,
             serial |-> options.serial,
             field_description |-> IfTruthyChars(options.fieldDescription),
             validation |-> options.validation]
    IN  execute("UpsertFieldToModel", variables, net)

\* ApitoGraphQLClient.updateModel
updateModel(type, modelName, net) ==
    execute("UpdateModel", [type |-> type, model_name |-> modelName], net)

\* ApitoGraphQLClient.modelFieldOperation
modelFieldOperation(type, modelName, fieldName, options, net) ==
    execute("ModelFieldOperation",
            [type |-> type, model_name |-> modelName, field_name |-> fieldName,
             new_name |-> IfTruthyChars(options.newName),
             parent_field |-> IfTruthyChars(options.parentField)], net)

\* the test of the response in getProjectModelsInfo
CheckModelsInfo(r) ==
    IF r.threw THEN r
    ELSE IF ~IsSome(r.value)
         THEN Throw("Invalid response structure from GraphQL API", r.sent)
         ELSE Return(Val(r.value), r.sent)

\* ApitoGraphQLClient.getProjectModelsInfo: the variable is sent only for a
\* truthy model name; a response without projectModelsInfo is an error
getProjectModelsInfo(modelName, net) ==
    CheckModelsInfo(execute("GetProjectModelsInfo",
                            [model_name |-> IfTruthyChars(modelName)], net))


-----------------------------------------------------------------------------
(* index.ts: tool handlers *)

\* a tool result: the template of its text and the isError flag
ToolResult(text, isError) == [text |-> text, isError |-> isError]

ReservedNames == { <<"l","i","s","t">>, <<"u","s","e","r">>,
                   <<"s","y","s","t","e","m">>,
                   <<"f","u","n","c","t","i","o","n">> }

\* validateModelName comparing the name as given with the reserved words
validateModelName_CaseSensitive(name) ==
    IF name \in ReservedNames
    THEN Some("Model name is reserved")
    ELSE IF Len(name) > 0 /\ name[1] \in Digits
         THEN Some("Model name cannot start with a number")
         ELSE None

\* ApitoMCPServer.validateModelName: the message thrown, or None
validateModelName(name) ==
    IF toLowerCase(name) \in ReservedNames
    THEN Some("Model name is reserved")
    ELSE IF Len(name) > 0 /\ name[1] \in Digits
         THEN Some("Model name cannot start with a number")
         ELSE None

\* a handler that awaits the remote call r and then returns result; a
\* failure of r propagates
Then(r, result) ==
    IF r.threw THEN r ELSE Return(result, r.sent)

\* the end of handleCreateModel: models[0] of a missing list is a TypeError
CreatedModel(r) ==
    IF r.threw THEN r
    ELSE IF ~IsSome(r.value)
         THEN Throw("Cannot read properties of undefined", r.sent)
         ELSE Return(ToolResult("Successfully created model", FALSE), r.sent)

\* ApitoMCPServer.handleCreateModel
handleCreateModel(args, net) ==
    IF IsSome(validateModelName(args.model_name))
    THEN Throw(Val(validateModelName(args.model_name)), <<>>)
    ELSE CreatedModel(addModelToProject(args.model_name, args.single_record, net))

\* HasFixedListElements without the test for an empty array
HasFixedListElements_AllowEmpty(validation) ==
    /\ IsSome(validation)
    /\ IsSome(Val(validation).fixed_list_elements)
    /\ Val(Val(validation).fixed_list_elements).truthy
    /\ Val(Val(validation).fixed_list_elements).isArray

\* validation.fixed_list_elements of an add_field call is usable: truthy, an
\* array, and not empty
HasFixedListElements(validation) ==
    /\ IsSome(validation)
    /\ IsSome(Val(validation).fixed_list_elements)
    /\ Val(Val(validation).fixed_list_elements).truthy
    /\ Val(Val(validation).fixed_list_elements).isArray
    /\ Val(Val(validation).fixed_list_elements).length # 0

\* ListWithoutSubType testing only for an empty sub-type string
ListWithoutSubType_EmptyOnly(args) ==
    args.field_type = "list" /\ args.field_sub_type = Some("")

\* the first test of handleAddField: a list field without a (truthy) sub-type
ListWithoutSubType(args) ==
    args.field_type = "list" /\ ~TruthyText(args.field_sub_type)

\* isObjectField defaulting to true for object fields only
isObjectField_ObjectOnly(args) ==
    IF IsSome(args.is_object_field)
    THEN Val(args.is_object_field)
    ELSE args.field_type = "object"

\* handleAddField: is_object_field as given, else set for object and repeated
isObjectField(args) ==
    IF IsSome(args.is_object_field)
    THEN Val(args.is_object_field)
    ELSE args.field_type = "object" \/ args.field_type = "repeated"

\* ApitoMCPServer.handleAddField
handleAddField(args, net) ==
    IF ListWithoutSubType(args)
    THEN Return(ToolResult("Error: field_sub_type is required", TRUE), <<>>)
    ELSE IF /\ args.field_sub_type \in {Some("dropdown"), Some("multiSelect")}
            /\ ~HasFixedListElements(args.validation)
    THEN Return(ToolResult("Error: validation.fixed_list_elements is REQUIRED", TRUE), <<>>)
    ELSE IF /\ args.field_sub_type \in {Some("dropdown"), Some("multiSelect")}
            /\ ~TruthyText(Val(args.validation).fixed_list_element_type)
    THEN Return(ToolResult("Error: validation.fixed_list_element_type is REQUIRED", TRUE), <<>>)
    ELSE Then(upsertFieldToModel(args.model_name, args.field_label,
                  args.field_type, args.input_type,
                  [fieldSubType |-> args.field_sub_type,
                   parentField |-> args.parent_field,
                   isObjectField |-> Some(isObjectField(args)),
                   isUpdate |-> None,
                   fieldDescription |-> args.field_description,
                   validation |-> args.validation,
                   serial |-> args.serial], net),
              ToolResult("Successfully added field", FALSE))

\* ApitoMCPServer.handleUpdateField
handleUpdateField(args, net) ==
    Then(upsertFieldToModel(args.model_name, args.field_label,
             IF TruthyText(args.field_type) THEN Val(args.field_type) ELSE "text",
             IF TruthyText(args.input_type) THEN Val(args.input_type) ELSE "string",
             [fieldSubType |-> None,
              parentField |-> None,
              isObjectField |-> None,
              isUpdate |-> Some(TRUE),
              fieldDescription |-> args.field_description,
              validation |-> args.validation,
              serial |-> None], net),
         ToolResult("Successfully updated field", FALSE))

\* ApitoMCPServer.handleRenameField
handleRenameField(args, net) ==
    Then(modelFieldOperation("rename", args.model_name, args.field_name,
             [newName |-> Some(args.new_name), parentField |-> args.parent_field], net),
         ToolResult("Successfully renamed field", FALSE))

\* ApitoMCPServer.handleDeleteField
handleDeleteField(args, net) ==
    Then(modelFieldOperation("delete", args.model_name, args.field_name,
             [newName |-> None, parentField |-> args.parent_field], net),
         ToolResult("Successfully deleted field", FALSE))

\* ApitoMCPServer.handleDeleteModel
handleDeleteModel(args, net) ==
    Then(updateModel("delete", args.model_name, net),
         ToolResult("Successfully deleted model", FALSE))

\* ApitoMCPServer.handleListModels
handleListModels(net) ==
    Then(getProjectModelsInfo(None, net), ToolResult("Found model(s)", FALSE))

\* FoundSchema returning the last model of the list
FoundSchema_LastModel(r) ==
    IF r.threw THEN r
    ELSE IF Len(r.value) = 0
         THEN Return(ToolResult("Model not found", TRUE), r.sent)
         ELSE Return([text |-> "Schema for model", isError |-> FALSE,
                      model |-> r.value[Len(r.value)]], r.sent)

\* the end of handleGetModelSchema: no model is an isError result, else the
\* first model is the schema returned
FoundSchema(r) ==
    IF r.threw THEN r
    ELSE IF Len(r.value) = 0
         THEN Return(ToolResult("Model not found", TRUE), r.sent)
         ELSE Return([text |-> "Schema for model", isError |-> FALSE,
                      model |-> r.value[1]], r.sent)

\* ApitoMCPServer.handleGetModelSchema
handleGetModelSchema(args, net) ==
    FoundSchema(getProjectModelsInfo(Some(args.model_name), net))

\* the names the switch of callToolHandler dispatches on
DispatchedTools == {"create_model", "add_field", "update_field", "rename_field",
                    "delete_field", "delete_model", "list_models",
                    "get_model_schema"}

\* the switch of callToolHandler
DispatchTool(name, args, net) ==
    CASE name = "create_model" -> handleCreateModel(args, net)
      [] name = "add_field" -> handleAddField(args, net)
      [] name = "update_field" -> handleUpdateField(args, net)
      [] name = "rename_field" -> handleRenameField(args, net)
      [] name = "delete_field" -> handleDeleteField(args, net)
      [] name = "delete_model" -> handleDeleteModel(args, net)
      [] name = "list_models" -> handleListModels(net)
      [] name = "get_model_schema" -> handleGetModelSchema(args, net)
      [] OTHER -> Throw("Unknown tool", <<>>)

\* callToolHandler without its catch block: a thrown error is thrown on
CatchToolError_Rethrow(r) == r

\* the catch block of callToolHandler: a thrown error becomes an isError result
CatchToolError(r) ==
    IF r.threw
    THEN Return(ToolResult(r.message, TRUE), r.sent)
    ELSE r

\* callToolHandler: the switch over the tool name inside the try block
callToolHandler(params, net) ==
    CatchToolError(DispatchTool(params.name, params.arguments, net))

\* listToolsHandler: the names of the tools listed
ListedTools == {"create_model", "add_field", "update_field", "rename_field",
                "delete_field", "delete_model", "list_models",
                "get_model_schema", "add_relation"}

listToolsHandler == Return([tools |-> ListedTools], <<>>)

\* listPromptsHandler
listPromptsHandler == Return([prompts |-> {"confirm_field_type"}], <<>>)

\* getPromptHandler
getPromptHandler(params) ==
    IF params.name = "confirm_field_type"
    THEN Return([messages |-> 1], <<>>)
    ELSE Throw("Unknown prompt", <<>>)

\* the end of listResourcesHandler: a failure of the discovery query is logged
\* and an empty list is returned
ListedResources(r) ==
    IF r.threw
    THEN Return([resources |-> <<>>], r.sent)
    ELSE Return([resources |-> [i \in 1..Len(r.value) |-> r.value[i].name]], r.sent)

\* listResourcesHandler
listResourcesHandler(net) == ListedResources(getProjectModelsInfo(None, net))

\* the characters of "apito://model/"
ModelUriPrefix == <<"a","p","i","t","o",":","/","/","m","o","d","e","l","/">>

\* uri.match(/^apito:\/\/model\/(.+)$/): the prefix and at least one character
MatchesModelUri(uri) ==
    /\ Len(uri) > Len(ModelUriPrefix)
    /\ SubSeq(uri, 1, Len(ModelUriPrefix)) = ModelUriPrefix

\* match[1] of the URI pattern
UriModelName(uri) == SubSeq(uri, Len(ModelUriPrefix) + 1, Len(uri))

\* the end of readResourceHandler: no model is an error, errors are rethrown
ReadModel(r) ==
    IF r.threw THEN r
    ELSE IF Len(r.value) = 0
         THEN Throw("Model not found", r.sent)
         ELSE Return([contents |-> r.value[1]], r.sent)

\* readResourceHandler
readResourceHandler(params, net) ==
    IF ~MatchesModelUri(params.uri)
    THEN Throw("Invalid resource URI", <<>>)
    ELSE ReadModel(getProjectModelsInfo(Some(UriModelName(params.uri)), net))

-----------------------------------------------------------------------------
(* index.ts: handleMCPRequest *)

RpcResult(id, result) == [jsonrpc |-> "2.0", id |-> id, kind |-> "result",
                          result |-> result, code |-> 0, message |-> ""]
RpcError(id, code, message) == [jsonrpc |-> "2.0", id |-> id, kind |-> "error",
                                result |-> None, code |-> code, message |-> message]

\* the methods with a handler
RoutedMethods == {"tools/list", "tools/call", "prompts/list", "prompts/get",
                  "resources/list", "resources/read"}

\* the methods whose handler creates the GraphQL client when it is not set
ClientMethods == {"tools/call", "resources/list", "resources/read"}

\* the routing of handleMCPRequest to the stored handlers
Route(req, net) ==
    CASE req.method = "tools/list" -> listToolsHandler
      [] req.method = "tools/call" -> callToolHandler(req.params, net)
      [] req.method = "prompts/list" -> listPromptsHandler
      [] req.method = "prompts/get" -> getPromptHandler(req.params)
      [] req.method = "resources/list" -> listResourcesHandler(net)
      [] req.method = "resources/read" -> readResourceHandler(req.params, net)

\* the response of handleMCPRequest to a routed request: the handler's result,
\* or error -32000 when the handler throws
Routed(id, r) ==
    IF r.threw
    THEN [response |-> RpcError(id, -32000, r.message), sent |-> r.sent]
    ELSE [response |-> RpcResult(id, r.value), sent |-> r.sent]

\* ApitoMCPServer.handleMCPRequest: the response and the remote requests sent
handleMCPRequest(req, net) ==
    IF req.method = "initialize"
    THEN [response |-> RpcResult(req.id, [serverInfo |-> "apito-mcp"]), sent |-> <<>>]
    ELSE IF req.method \notin RoutedMethods
    THEN [response |-> RpcError(req.id, -32601, "Method not found"), sent |-> <<>>]
    ELSE Routed(req.id, Route(req, net))

-----------------------------------------------------------------------------
(* schema-parser.ts *)

\* \s of the patterns and the characters String.prototype.trim removes
WhiteSpace == {" "}

\* \w of the patterns
IsWordChar(c) ==
    \/ c \in Digits
    \/ c = "_"
    \/ \E i \in 1..26 : c = UpperChars[i] \/ c = LowerChars[i]

\* String.prototype.includes, one character
includes(s, c) == \E i \in 1..Len(s) : s[i] = c

\* String.prototype.trim
trim(s) ==
    IF \A i \in 1..Len(s) : s[i] \in WhiteSpace
    THEN <<>>
    ELSE SubSeq(s,
                CHOOSE i \in 1..Len(s) :
                    s[i] \notin WhiteSpace /\ \A j \in 1..(i-1) : s[j] \in WhiteSpace,
                CHOOSE i \in 1..Len(s) :
                    s[i] \notin WhiteSpace /\ \A j \in (i+1)..Len(s) : s[j] \in WhiteSpace)

\* the length of the longest prefix of s[from..] made of characters in S
RECURSIVE RunLen(_, _, _)
RunLen(s, from, S) ==
    IF from <= Len(s) /\ s[from] \in S
    THEN 1 + RunLen(s, from + 1, S)
    ELSE 0

\* the length of the longest prefix of s made of word characters: (\w+)
WordPrefixLen(s) ==
    IF \A i \in 1..Len(s) : IsWordChar(s[i])
    THEN Len(s)
    ELSE (CHOOSE i \in 1..Len(s) :
              ~IsWordChar(s[i]) /\ \A j \in 1..(i-1) : IsWordChar(s[j])) - 1

\* the rest of the pattern after the name s[1..n] and the white space up to
\* s[g]: the opener, one or more characters other than the closer, the closer,
\* the end of the string. The groups (name, content), or None
MatchAfterGap(s, n, g, open, close) ==
    IF /\ Len(s) >= g + 3
       /\ s[g + 1] = open
       /\ s[Len(s)] = close
       /\ \A i \in (g + 2)..(Len(s) - 1) : s[i] # close
    THEN Some([name |-> SubSeq(s, 1, n), content |-> SubSeq(s, g + 2, Len(s) - 1)])
    ELSE None

\* the pattern with a name of any length, also none: (\w*)
MatchAfterName_EmptyName(s, n, open, close) ==
    MatchAfterGap(s, n, n + RunLen(s, n + 1, WhiteSpace), open, close)

\* the pattern after the name: a name of at least one character is needed
MatchAfterName(s, n, open, close) ==
    IF n = 0 THEN None
    ELSE MatchAfterGap(s, n, n + RunLen(s, n + 1, WhiteSpace), open, close)

\* fieldDef.match(/^(\w+)\s*\[([^\]]+)\]$/), and the same with braces
matchContainer(s, open, close) == MatchAfterName(s, WordPrefixLen(s), open, close)

\* str.split(/\s+/).map(name => name.trim()).filter(name => name.length > 0)
RECURSIVE splitNames(_)
splitNames(s) ==
    IF s = <<>> THEN <<>>
    ELSE IF s[1] \in WhiteSpace THEN splitNames(Tail(s))
    ELSE <<SubSeq(s, 1, RunLen(s, 1, {s[i] : i \in 1..Len(s)} \ WhiteSpace))>>
         \o splitNames(SubSeq(s, 1 + RunLen(s, 1, {s[i] : i \in 1..Len(s)} \ WhiteSpace),
                              Len(s)))

\* a ParsedField; absent members are None
ParsedField(name, fieldType, inputType, nested, parent, serial, isObject, isArray) ==
    [name |-> name, field_type |-> fieldType, input_type |-> inputType,
     nested_fields |-> nested, parent_field |-> parent, serial |-> serial,
     is_object |-> isObject, is_array |-> isArray]

\* the nested fields of parseArrayField: one text field per name, with the
\* container as parent and serial index + 1
arrayNestedFields(names, fieldName) ==
    [i \in 1..Len(names) |->
        ParsedField(names[i], "text", "string", None, Some(fieldName), Some(i),
                    None, None)]

\* the end of parseArrayField: the error, or the repeated field
ArrayFieldOf(match, parentField) ==
    IF ~IsSome(match)
    THEN Throw("Invalid array field format", <<>>)
    ELSE Return(ParsedField(trim(Val(match).name), "repeated", "repeated",
                    Some(arrayNestedFields(splitNames(trim(Val(match).content)),
                                           trim(Val(match).name))),
                    parentField, None, None, Some(TRUE)), <<>>)

\* SchemaParser.parseArrayField
parseArrayField(fieldDef, parentField) ==
    ArrayFieldOf(matchContainer(fieldDef, "[", "]"), parentField)

\* objectNestedFields numbering the children from 0
objectNestedFields_ZeroBased(names, fieldName) ==
    [i \in 1..Len(names) |->
        ParsedField(names[i], "text", "string", None, Some(fieldName), Some(i - 1),
                    None, None)]

\* objectNestedFields leaving parent_field of the children unset
objectNestedFields_NoParent(names, fieldName) ==
    [i \in 1..Len(names) |->
        ParsedField(names[i], "text", "string", None, None, Some(i), None, None)]

\* the nested fields of parseObjectField: one text field per name, with the
\* container as parent and serial index + 1
objectNestedFields(names, fieldName) ==
    [i \in 1..Len(names) |->
        ParsedField(names[i], "text", "string", None, Some(fieldName), Some(i),
                    None, None)]

\* the end of parseObjectField: the error, or the object field
ObjectFieldOf(match, parentField) ==
    IF ~IsSome(match)
    THEN Throw("Invalid object field format", <<>>)
    ELSE Return(ParsedField(trim(Val(match).name), "object", "object",
                    Some(objectNestedFields(splitNames(trim(Val(match).content)),
                                            trim(Val(match).name))),
                    parentField, None, Some(TRUE), None), <<>>)

\* SchemaParser.parseObjectField
parseObjectField(fieldDef, parentField) ==
    ObjectFieldOf(matchContainer(fieldDef, "{", "}"), parentField)

\* parseField testing for braces before brackets
parseTrimmed_ObjectFirst(trimmed, parentField) ==
    IF includes(trimmed, "{") /\ includes(trimmed, "}")
    THEN parseObjectField(trimmed, parentField)
    ELSE IF includes(trimmed, "[") /\ includes(trimmed, "]")
    THEN parseArrayField(trimmed, parentField)
    ELSE Return(ParsedField(trimmed, "text", "string", None, parentField, None,
                            None, None), <<>>)

\* parseField after the trim
parseTrimmed(trimmed, parentField) ==
    IF includes(trimmed, "[") /\ includes(trimmed, "]")
    THEN parseArrayField(trimmed, parentField)
    ELSE IF includes(trimmed, "{") /\ includes(trimmed, "}")
    THEN parseObjectField(trimmed, parentField)
    ELSE Return(ParsedField(trimmed, "text", "string", None, parentField, None,
                            None, None), <<>>)

\* parseField using the definition as given
parseField_NoTrim(fieldDef, parentField) == parseTrimmed(fieldDef, parentField)

\* SchemaParser.parseField
parseField(fieldDef, parentField) == parseTrimmed(trim(fieldDef), parentField)

\* withSerial using the index as the serial
withSerial_ZeroBased(r, index) ==
    IF r.threw THEN r ELSE Return([r.value EXCEPT !.serial = Some(index)], <<>>)

\* parsed.serial = index + 1
withSerial(r, index) ==
    IF r.threw THEN r ELSE Return([r.value EXCEPT !.serial = Some(index + 1)], <<>>)

\* the map of parseFields over the definitions
mapParseField(fieldDefinitions) ==
    [i \in 1..Len(fieldDefinitions) |-> withSerial(parseField(fieldDefinitions[i], None), i - 1)]

\* the result of the map: the first error thrown, or the fields
mapResult(rs) ==
    IF \E i \in 1..Len(rs) : rs[i].threw
    THEN rs[CHOOSE i \in 1..Len(rs) : rs[i].threw /\ \A j \in 1..(i-1) : ~rs[j].threw]
    ELSE Return([i \in 1..Len(rs) |-> rs[i].value], <<>>)

\* SchemaParser.parseFields
parseFields(fieldDefinitions) == mapResult(mapParseField(fieldDefinitions))

-----------------------------------------------------------------------------
(* field-resolver.ts *)

\* String.prototype.includes: k occurs in s
includesText(s, k) ==
    \E i \in 0..(Len(s) - Len(k)) : SubSeq(s, i + 1, i + Len(k)) = k

\* the test with its operands swapped: keyword.includes(name)
someIncluded_Swapped(keywords, name) == \E k \in keywords : includesText(k, name)

\* keywords.some(keyword => name.includes(keyword))
someIncluded(keywords, name) == \E k \in keywords : includesText(name, k)

\* SchemaParser.mightBeArray: arrayIndicators
arrayIndicators ==
    { <<"l","i","s","t">>, <<"a","r","r","a","y">>,
      <<"i","t","e","m","s">>,
      <<"c","o","l","l","e","c","t","i","o","n">>,
      <<"m","u","l","t","i","p","l","e">> }
\* FieldResolver.isDateField: dateKeywords
dateKeywords ==
    { <<"d","a","t","e">>, <<"t","i","m","e">>,
      <<"c","r","e","a","t","e","d","_","a","t">>,
      <<"u","p","d","a","t","e","d","_","a","t">>,
      <<"t","i","m","e","s","t","a","m","p">>, <<"w","h","e","n">> }
\* FieldResolver.isNumberField: numberKeywords
numberKeywords ==
    { <<"c","o","u","n","t">>, <<"n","u","m","b","e","r">>,
      <<"n","u","m">>, <<"q","u","a","n","t","i","t","y">>,
      <<"q","t","y">>, <<"a","m","o","u","n","t">>,
      <<"p","r","i","c","e">>, <<"c","o","s","t">>,
      <<"t","o","t","a","l">>, <<"s","u","m">>, <<"a","g","e">>,
      <<"s","c","o","r","e">>, <<"r","a","t","i","n","g">>,
      <<"r","a","n","k">>, <<"i","n","d","e","x">>,
      <<"o","r","d","e","r">>, <<"s","e","r","i","a","l">>, <<"i","d">>,
      <<"d","u","r","a","t","i","o","n">>,
      <<"f","r","e","q","u","e","n","c","y">>,
      <<"s","t","r","e","n","g","t","h">>, <<"u","n","i","t">> }
\* FieldResolver.isBooleanField: booleanKeywords
booleanKeywords ==
    { <<"i","s","_">>, <<"h","a","s","_">>, <<"c","a","n","_">>,
      <<"s","h","o","u","l","d","_">>, <<"m","u","s","t","_">>,
      <<"e","n","a","b","l","e">>, <<"d","i","s","a","b","l","e">>,
      <<"a","c","t","i","v","e">>, <<"i","n","a","c","t","i","v","e">>,
      <<"e","n","a","b","l","e","d">>,
      <<"d","i","s","a","b","l","e","d">>,
      <<"v","i","s","i","b","l","e">>, <<"h","i","d","d","e","n">>,
      <<"r","e","q","u","i","r","e","d">>,
      <<"o","p","t","i","o","n","a","l">>,
      <<"v","e","r","i","f","i","e","d">>,
      <<"c","o","n","f","i","r","m","e","d">> }
\* FieldResolver.isMultilineField: multilineKeywords
multilineKeywords ==
    { <<"d","e","s","c","r","i","p","t","i","o","n">>,
      <<"c","o","n","t","e","n","t">>, <<"b","o","d","y">>,
      <<"t","e","x","t">>, <<"m","e","s","s","a","g","e">>,
      <<"n","o","t","e">>, <<"c","o","m","m","e","n","t">>,
      <<"d","e","t","a","i","l","s">>, <<"s","u","m","m","a","r","y">>,
      <<"a","b","s","t","r","a","c","t">>,
      <<"i","n","s","t","r","u","c","t","i","o","n","s">>,
      <<"a","d","v","i","c","e">>, <<"f","i","n","d","i","n","g","s">>,
      <<"r","e","c","o","m","m","e","n","d","a","t","i","o","n","s">>,
      <<"n","o","t","e","s">> }
\* FieldResolver.isMediaField: mediaKeywords
mediaKeywords ==
    { <<"i","m","a","g","e">>, <<"p","h","o","t","o">>,
      <<"p","i","c","t","u","r","e">>, <<"l","o","g","o">>,
      <<"a","v","a","t","a","r">>, <<"i","c","o","n">>,
      <<"f","i","l","e">>, <<"d","o","c","u","m","e","n","t">>,
      <<"a","t","t","a","c","h","m","e","n","t">>,
      <<"m","e","d","i","a">>, <<"v","i","d","e","o">>,
      <<"a","u","d","i","o">> }
\* FieldResolver.isUrlField: urlKeywords
urlKeywords ==
    { <<"u","r","l">>, <<"l","i","n","k">>, <<"h","r","e","f">>,
      <<"w","e","b","s","i","t","e">>, <<"w","e","b">>, <<"u","r","i">> }

\* SchemaParser.isArray
isArray(fieldDef) == includes(fieldDef, "[") /\ includes(fieldDef, "]")

\* SchemaParser.isObject
isObject(fieldDef) == includes(fieldDef, "{") /\ includes(fieldDef, "}")

\* SchemaParser.mightBeArray
mightBeArray(fieldDef) == someIncluded(arrayIndicators, toLowerCase(trim(fieldDef)))

\* String.prototype.endsWith('[]')
endsWithBrackets(s) == Len(s) >= 2 /\ s[Len(s) - 1] = "[" /\ s[Len(s)] = "]"

isDateField(name) == someIncluded(dateKeywords, name)
isNumberField(name) == someIncluded(numberKeywords, name)
\* name.startsWith(keyword) || name.includes(keyword)
isBooleanField(name) == someIncluded(booleanKeywords, name)
isMultilineField(name) == someIncluded(multilineKeywords, name)
isMediaField(name) == someIncluded(mediaKeywords, name)
isUrlField(name) == someIncluded(urlKeywords, name)

\* a FieldTypeInfo; absent members are None
FieldTypeInfo(fieldType, inputType, isArr, isObj) ==
    [field_type |-> fieldType, input_type |-> inputType, is_array |-> isArr,
     is_object |-> isObj]

\* resolveFieldType testing for object syntax before array syntax
resolveNameAndDef_ObjectFirst(name, def) ==
    IF isObject(def) THEN FieldTypeInfo("object", "object", None, Some(TRUE))
    ELSE IF isArray(def) THEN FieldTypeInfo("repeated", "repeated", Some(TRUE), None)
    ELSE IF endsWithBrackets(def) \/ mightBeArray(def)
    THEN FieldTypeInfo("repeated", "repeated", Some(TRUE), None)
    ELSE IF isDateField(name) THEN FieldTypeInfo("date", "string", None, None)
    ELSE IF isNumberField(name) THEN FieldTypeInfo("number", "int", None, None)
    ELSE IF isBooleanField(name) THEN FieldTypeInfo("boolean", "bool", None, None)
    ELSE IF isMultilineField(name) THEN FieldTypeInfo("multiline", "string", None, None)
    ELSE IF isMediaField(name) THEN FieldTypeInfo("media", "string", None, None)
    ELSE FieldTypeInfo("text", "string", None, None)

\* resolveFieldType once name and def are computed
resolveNameAndDef(name, def) ==
    IF isArray(def) THEN FieldTypeInfo("repeated", "repeated", Some(TRUE), None)
    ELSE IF isObject(def) THEN FieldTypeInfo("object", "object", None, Some(TRUE))
    ELSE IF endsWithBrackets(def) \/ mightBeArray(def)
    THEN FieldTypeInfo("repeated", "repeated", Some(TRUE), None)
    ELSE IF isDateField(name) THEN FieldTypeInfo("date", "string", None, None)
    ELSE IF isNumberField(name) THEN FieldTypeInfo("number", "int", None, None)
    ELSE IF isBooleanField(name) THEN FieldTypeInfo("boolean", "bool", None, None)
    ELSE IF isMultilineField(name) THEN FieldTypeInfo("multiline", "string", None, None)
    ELSE IF isMediaField(name) THEN FieldTypeInfo("media", "string", None, None)
    ELSE IF isUrlField(name) THEN FieldTypeInfo("text", "string", None, None)
    ELSE FieldTypeInfo("text", "string", None, None)

\* FieldResolver.resolveFieldType: the name is fieldName when it is given and
\* not empty, else the trimmed, lower-cased definition
resolveFieldType(fieldDef, fieldName) ==
    resolveNameAndDef(IF TruthyChars(fieldName) THEN Val(fieldName)
                      ELSE toLowerCase(trim(fieldDef)),
                      trim(fieldDef))

\* the number of the three tests that hold: [..].filter(Boolean).length
matchCount(def) ==
    (IF isNumberField(def) THEN 1 ELSE 0) + (IF isDateField(def) THEN 1 ELSE 0)
    + (IF isBooleanField(def) THEN 1 ELSE 0)

\* FieldResolver.isAmbiguous
isAmbiguous(fieldDef) ==
    IF isObject(fieldDef) \/ endsWithBrackets(toLowerCase(trim(fieldDef)))
    THEN FALSE
    ELSE IF resolveFieldType(fieldDef, None).field_type = "text"
    THEN matchCount(toLowerCase(trim(fieldDef))) > 1
    ELSE FALSE

\* the suggestions pushed for a trimmed, lower-cased definition
suggestionsOf(def) ==
    (IF isDateField(def) THEN <<"date">> ELSE <<>>)
    \o (IF isNumberField(def) THEN <<"number">> ELSE <<>>)
    \o (IF isBooleanField(def) THEN <<"boolean">> ELSE <<>>)
    \o (IF isMultilineField(def) THEN <<"multiline">> ELSE <<>>)
    \o (IF isMediaField(def) THEN <<"media">> ELSE <<>>)

\* the fallback of getSuggestedTypes: text when nothing was pushed
orText(suggestions) ==
    IF Len(suggestions) = 0 THEN <<"text">> ELSE suggestions

\* getSuggestedTypes pushing number before date
getSuggestedTypes_NumberFirst(fieldDef) ==
    orText((IF isNumberField(toLowerCase(trim(fieldDef))) THEN <<"number">> ELSE <<>>)
           \o (IF isDateField(toLowerCase(trim(fieldDef))) THEN <<"date">> ELSE <<>>)
           \o SelectSeq(suggestionsOf(toLowerCase(trim(fieldDef))),
                        LAMBDA t : t \notin {"date", "number"}))

\* FieldResolver.getSuggestedTypes
getSuggestedTypes(fieldDef) == orText(suggestionsOf(toLowerCase(trim(fieldDef))))

\* the field with the types of a FieldTypeInfo
withTypes(field, resolved) ==
    [field EXCEPT !.field_type = resolved.field_type,
                  !.input_type = resolved.input_type]

\* the nested fields of resolveParsedField, each resolved by its name
resolveNested(nested) ==
    IF ~IsSome(nested) THEN nested
    ELSE Some([i \in 1..Len(Val(nested)) |->
                  withTypes(Val(nested)[i],
                            resolveFieldType(Val(nested)[i].name,
                                             Some(Val(nested)[i].name)))])

\* FieldResolver.resolveParsedField
resolveParsedField(field) ==
    [withTypes(field, resolveFieldType(field.name, Some(field.name)))
        EXCEPT !.nested_fields = resolveNested(field.nested_fields)]

-----------------------------------------------------------------------------
(* Inputs of the tool and resource operations *)

RequestIds == {1, 2}

\* model names given to create_model: every string over a few characters,
\* and the reserved words in several spellings
NameAlphabet == {"l", "L", "i", "s", "t", "9"}
ExtraNames == { <<"u","s","e","r">>, <<"U","S","E","R">>, <<"U","s","e","r">>,
                <<"s","y","s","t","e","m">>, <<"S","y","s","t","e","m">>,
                <<"f","u","n","c","t","i","o","n">>,
                <<"F","U","N","C","T","I","O","N">>,
                <<"u","s","e","r","s">>, <<"t","a","s","k">>,
                <<"T","a","s","k">>, <<"9","a","b","c">>, <<"a","9">> }
CreateModelNames == SeqsUpTo(NameAlphabet, MaxNameLen) \cup ExtraNames

\* names of existing models and fields used by the other tools
TaskName == <<"t","a","s","k">>
TitleName == <<"t","i","t","l","e">>
ParentName == <<"i","n","f","o">>

\* a JavaScript value given as validation.fixed_list_elements
JsValues == { [truthy |-> FALSE, isArray |-> FALSE, length |-> 0],   \* null, ""
              [truthy |-> TRUE, isArray |-> FALSE, length |-> 3],    \* "a,b"
              [truthy |-> TRUE, isArray |-> TRUE, length |-> 0],     \* []
              [truthy |-> TRUE, isArray |-> TRUE, length |-> 1],     \* ["a"]
              [truthy |-> TRUE, isArray |-> TRUE, length |-> 2] }    \* ["a", "b"]

Validations ==
    {None} \cup
    { Some([fixed_list_elements |-> e, fixed_list_element_type |-> t]) :
        e \in {None} \cup {Some(v) : v \in JsValues},
        t \in {None, Some(""), Some("string")} }

AddFieldArgs ==
    [model_name : {TaskName},
     field_label : {TitleName},
     field_type : {"text", "number", "list", "object", "repeated"},
     input_type : {"string"},
     field_sub_type : {None, Some(""), Some("dynamicList"), Some("dropdown"),
                       Some("multiSelect")},
     parent_field : {None, Some(ParentName)},
     is_object_field : {None, Some(TRUE), Some(FALSE)},
     field_description : {None},
     validation : Validations,
     serial : {None, Some(1)}]

\* answers of the remote system to a mutation and to the discovery query
MutationNets == {[kind |-> "ok", data |-> d] : d \in MutationData}
                \cup {[kind |-> k, data |-> None] : k \in NetKinds \ {"ok"}}
DiscoveryNets == {[kind |-> "ok", data |-> d] : d \in DiscoveryData}
                 \cup {[kind |-> k, data |-> None] : k \in NetKinds \ {"ok"}}

NoRequest == [id |-> 0, method |-> "", params |-> None]
NoResponse == [jsonrpc |-> "2.0", id |-> 0, kind |-> "none", result |-> None,
               code |-> 0, message |-> ""]
NoNet == [kind |-> "ok", data |-> None]
NotParsed == Return(None, <<>>)
NotResolved == [op |-> "none", fieldDef |-> <<>>, fieldName |-> None,
                value |-> None, ambiguous |-> None]
NotDerived == [modelName |-> None, names |-> None]
NoRun == [state |-> "Idle", model_name |-> <<>>, fields |-> <<>>,
          pending |-> <<>>, failed_at |-> None]
NotFetched == [request |-> None, env |-> None, response |-> None, server |-> 0]

-----------------------------------------------------------------------------
(* The server answering MCP requests *)

Init ==
    /\ client = FALSE
    /\ request = NoRequest
    /\ response = NoResponse
    /\ sent = <<>>
    /\ remote = NoNet
    /\ fieldDefs = <<>>
    /\ shapes = <<>>
    /\ parsed = NotParsed
    /\ pop = [op |-> "none", parentField |-> None]
    /\ run = NoRun
    /\ calls = <<>>
    /\ resolution = NotResolved
    /\ operations = NotDerived
    /\ serverCache = {}
    /\ servers = <<>>
    /\ fetched = NotFetched

\* one call of handleMCPRequest ; the handlers of
\* ClientMethods create the GraphQL client on first use
Answer(req, net, out) ==
    /\ client' = (client \/ req.method \in ClientMethods)
    /\ request' = req
    /\ response' = out.response
    /\ sent' = out.sent
    /\ remote' = net
    /\ UNCHANGED <<parserVars, orchVars, pureVars, workerVars>>

Handle(req, net) == Answer(req, net, handleMCPRequest(req, net))

\* the server is not answering a request
Idle == request = NoRequest

ToolCall(id, name, args) ==
    [id |-> id, method |-> "tools/call", params |-> [name |-> name, arguments |-> args]]

Initialize ==
    /\ Idle
    /\ \E id \in RequestIds :
           Handle([id |-> id, method |-> "initialize", params |-> None], NoNet)

ToolsList ==
    /\ Idle
    /\ \E id \in RequestIds :
           Handle([id |-> id, method |-> "tools/list", params |-> None], NoNet)

CreateModel ==
    /\ Idle
    /\ \E id \in RequestIds, name \in CreateModelNames,
          single \in {None, Some(TRUE)}, net \in MutationNets :
           Handle(ToolCall(id, "create_model",
                           [model_name |-> name, single_record |-> single]), net)

AddField ==
    /\ Idle
    /\ \E id \in RequestIds, args \in AddFieldArgs, net \in MutationNets :
           Handle(ToolCall(id, "add_field", args), net)

UpdateField ==
    /\ Idle
    /\ \E id \in RequestIds, ft \in {None, Some(""), Some("number")},
          it \in {None, Some("int")}, v \in {None}, net \in MutationNets :
           Handle(ToolCall(id, "update_field",
                           [model_name |-> TaskName, field_name |-> TitleName,
                            field_label |-> TitleName, field_type |-> ft,
                            input_type |-> it, field_description |-> None,
                            validation |-> v]), net)

RenameField ==
    /\ Idle
    /\ \E id \in RequestIds, parent \in {None, Some(ParentName)}, net \in MutationNets :
           Handle(ToolCall(id, "rename_field",
                           [model_name |-> TaskName, field_name |-> TitleName,
                            new_name |-> ParentName, parent_field |-> parent]), net)

DeleteField ==
    /\ Idle
    /\ \E id \in RequestIds, parent \in {None, Some(ParentName)}, net \in MutationNets :
           Handle(ToolCall(id, "delete_field",
                           [model_name |-> TaskName, field_name |-> TitleName,
                            parent_field |-> parent]), net)

DeleteModel ==
    /\ Idle
    /\ \E id \in RequestIds, net \in MutationNets :
           Handle(ToolCall(id, "delete_model", [model_name |-> TaskName]), net)

ListModels ==
    /\ Idle
    /\ \E id \in RequestIds, net \in DiscoveryNets :
           Handle(ToolCall(id, "list_models", None), net)

GetModelSchema ==
    /\ Idle
    /\ \E id \in RequestIds, net \in DiscoveryNets :
           Handle(ToolCall(id, "get_model_schema", [model_name |-> TaskName]), net)

\* a tools/call naming a tool the switch has no case for
CallOtherTool ==
    /\ Idle
    /\ \E id \in RequestIds,
          name \in {"add_relation", "get_project_query_structure", "no_such_tool"},
          net \in MutationNets :
           Handle(ToolCall(id, name, None), net)

PromptsList ==
    /\ Idle
    /\ \E id \in RequestIds :
           Handle([id |-> id, method |-> "prompts/list", params |-> None], NoNet)

PromptsGet ==
    /\ Idle
    /\ \E id \in RequestIds, name \in {"confirm_field_type", "other_prompt"} :
           Handle([id |-> id, method |-> "prompts/get", params |-> [name |-> name]], NoNet)

ResourcesList ==
    /\ Idle
    /\ \E id \in RequestIds, net \in DiscoveryNets :
           Handle([id |-> id, method |-> "resources/list", params |-> None], net)

ResourcesRead ==
    /\ Idle
    /\ \E id \in RequestIds,
          uri \in {ModelUriPrefix \o TaskName, ModelUriPrefix, TaskName},
          net \in DiscoveryNets :
           Handle([id |-> id, method |-> "resources/read", params |-> [uri |-> uri]], net)

OtherMethod ==
    /\ Idle
    /\ \E id \in RequestIds, method \in {"ping", "notifications/initialized"} :
           Handle([id |-> id, method |-> method, params |-> None], NoNet)

\* the response is handed to the caller and the server is idle again
Respond ==
    /\ request # NoRequest
    /\ request' = NoRequest
    /\ response' = NoResponse
    /\ sent' = <<>>
    /\ remote' = NoNet
    /\ UNCHANGED <<client, parserVars, orchVars, pureVars, workerVars>>

Next ==
    \/ Initialize
    \/ ToolsList
    \/ CreateModel
    \/ AddField
    \/ UpdateField
    \/ RenameField
    \/ DeleteField
    \/ DeleteModel
    \/ ListModels
    \/ GetModelSchema
    \/ CallOtherTool
    \/ PromptsList
    \/ PromptsGet
    \/ ResourcesList
    \/ ResourcesRead
    \/ OtherMethod
    \/ Respond

Spec == Init /\ [][Next]_vars

-----------------------------------------------------------------------------
(* Inputs of the parser *)

\* n space characters
Spaces(n) == [i \in 1..n |-> " "]

\* the names joined by sep
RECURSIVE Join(_, _)
Join(names, sep) ==
    IF Len(names) = 0 THEN <<>>
    ELSE IF Len(names) = 1 THEN names[1]
    ELSE names[1] \o sep \o Join(Tail(names), sep)

\* the definition string written from a shape: a scalar name, a container
\* "name { c1 ... ck }" or "name [ c1 ... ck ]" with its white space, or any
\* text as it is
Render(w) ==
    CASE w.form = "scalar" -> Spaces(w.lead) \o w.name \o Spaces(w.edge)
      [] w.form = "object" ->
            Spaces(w.lead) \o w.name \o Spaces(w.pad) \o <<"{">> \o Spaces(w.edge)
            \o Join(w.kids, Spaces(w.sep)) \o Spaces(w.edge) \o <<"}">>
      [] w.form = "array" ->
            Spaces(w.lead) \o w.name \o Spaces(w.pad) \o <<"[">> \o Spaces(w.edge)
            \o Join(w.kids, Spaces(w.sep)) \o Spaces(w.edge) \o <<"]">>
      [] OTHER -> w.name

ContainerNames == { <<"a">>, <<"m","e","d","i","c","i","n","e">> }
KidNames == { <<"b">>, <<"u","n","i","t">>, <<"n","a","m","e">>, <<"U","n","i","t">> }
ScalarNames == { <<"x">>, <<"d","a","t","e">>, <<"i","s","_","a","c","t","i","v","e">>,
                 <<"D","a","t","e">> }

KidLists == SeqsUpTo(KidNames, MaxKids) \ {<<>>}

ContainerShapes ==
    [form : {"object", "array"}, name : ContainerNames, kids : KidLists,
     lead : {0, 1}, pad : {0, 1}, edge : {0, 1}, sep : {1, 2}]

ScalarShapes ==
    [form : {"scalar"}, name : ScalarNames, kids : {<<>>},
     lead : {0, 1}, pad : {0}, edge : {0, 1}, sep : {1}]

RawShape(text) ==
    [form |-> "raw", name |-> text, kids |-> <<>>, lead |-> 0, pad |-> 0,
     edge |-> 0, sep |-> 1]

\* any text over the characters of the grammar
DefAlphabet == {"a", " ", "[", "]", "{", "}"}
RawShapes == {RawShape(text) : text \in SeqsUpTo(DefAlphabet, MaxDefLen)}

\* the definitions that lists given to parseFields are made of
ListPool ==
    { [form |-> "scalar", name |-> <<"d","a","t","e">>, kids |-> <<>>,
       lead |-> 0, pad |-> 0, edge |-> 0, sep |-> 1],
      [form |-> "scalar", name |-> <<"x">>, kids |-> <<>>,
       lead |-> 1, pad |-> 0, edge |-> 1, sep |-> 1],
      [form |-> "object", name |-> <<"m","e","d","i","c","i","n","e">>,
       kids |-> << <<"u","n","i","t">>, <<"n","a","m","e">> >>,
       lead |-> 0, pad |-> 1, edge |-> 1, sep |-> 1],
      [form |-> "array", name |-> <<"a">>, kids |-> << <<"b">> >>,
       lead |-> 0, pad |-> 0, edge |-> 0, sep |-> 1],
      RawShape(<<"a","[","]">>),
      RawShape(<<"a"," ","{">>) }

ParserInputs ==
    {<<w>> : w \in ContainerShapes \cup ScalarShapes \cup RawShapes}
    \cup SeqsUpTo(ListPool, MaxDefs)

-----------------------------------------------------------------------------
(* The parser applied to definitions *)

ToolsIdle ==
    /\ client = FALSE
    /\ request = NoRequest
    /\ response = NoResponse
    /\ sent = <<>>
    /\ remote = NoNet

InitParser ==
    /\ ToolsIdle
    /\ \E ws \in ParserInputs :
          /\ shapes = ws
          /\ fieldDefs = [i \in 1..Len(ws) |-> Render(ws[i])]
    /\ parsed = NotParsed
    /\ pop = [op |-> "none", parentField |-> None]
    /\ run = NoRun
    /\ calls = <<>>
    /\ resolution = NotResolved
    /\ operations = NotDerived
    /\ serverCache = {}
    /\ servers = <<>>
    /\ fetched = NotFetched

\* SchemaParser.parseField on one definition, with or without a parent
ParseField ==
    /\ pop.op = "none"
    /\ Len(fieldDefs) = 1
    /\ \E parent \in {None, Some(ParentName)} :
          /\ parsed' = parseField(fieldDefs[1], parent)
          /\ pop' = [op |-> "parseField", parentField |-> parent]
    /\ UNCHANGED <<toolVars, fieldDefs, shapes, orchVars, pureVars, workerVars>>

\* SchemaParser.parseFields on the list of definitions
ParseFields ==
    /\ pop.op = "none"
    /\ parsed' = parseFields(fieldDefs)
    /\ pop' = [op |-> "parseFields", parentField |-> None]
    /\ UNCHANGED <<toolVars, fieldDefs, shapes, orchVars, pureVars, workerVars>>

\* FieldResolver.resolveParsedField on the field parseField returned, or on
\* each of the fields parseFields returned: the fields are updated in place
ResolveParsedField ==
    /\ pop.op \in {"parseField", "parseFields"}
    /\ ~parsed.threw
    /\ parsed' = IF pop.op = "parseField"
                 THEN Return(resolveParsedField(parsed.value), <<>>)
                 ELSE Return([i \in 1..Len(parsed.value) |->
                                 resolveParsedField(parsed.value[i])], <<>>)
    /\ pop' = [pop EXCEPT !.op = IF pop.op = "parseField"
                                 THEN "resolveParsedField"
                                 ELSE "resolveParsedFields"]
    /\ UNCHANGED <<toolVars, fieldDefs, shapes, orchVars, pureVars, workerVars>>

NextParser ==
    \/ ParseField
    \/ ParseFields
    \/ ResolveParsedField

SpecParser == InitParser /\ [][NextParser]_vars

-----------------------------------------------------------------------------
(* The schema mutation orchestrator: create_schema_from_definition *)

\* the serial of a field, 0 when it has none
serialOf(field) == IF IsSome(field.serial) THEN Val(field.serial) ELSE 0

\* the place of fields[i] in ascending serial order; fields of equal serial
\* keep their order
rankBySerial(fields, i) ==
    1 + Cardinality({ j \in 1..Len(fields) :
                        \/ serialOf(fields[j]) < serialOf(fields[i])
                        \/ serialOf(fields[j]) = serialOf(fields[i]) /\ j < i })

\* the fields in descending serial order
bySerial_Descending(fields) ==
    [k \in 1..Len(fields) |->
        fields[CHOOSE i \in 1..Len(fields) :
                  rankBySerial(fields, i) = Len(fields) + 1 - k]]

\* the fields in ascending serial order
bySerial(fields) ==
    [k \in 1..Len(fields) |->
        fields[CHOOSE i \in 1..Len(fields) : rankBySerial(fields, i) = k]]

\* the arguments of the add-field call of a field
addFieldArgs(modelName, field) ==
    [model_name |-> modelName,
     field_label |-> field.name,
     field_type |-> field.field_type,
     input_type |-> field.input_type,
     field_sub_type |-> None,
     parent_field |-> field.parent_field,
     is_object_field |-> field.is_object,
     field_description |-> None,
     validation |-> None,
     serial |-> field.serial]

\* the add-field calls of the fields, in the order given
RECURSIVE callsOf(_, _)
callsOf(modelName, fields) ==
    IF Len(fields) = 0 THEN <<>>
    ELSE <<addFieldArgs(modelName, Head(fields))>>
         \o callsOf(modelName, Tail(fields))

\* the children of a field in ascending serial order
childrenOf(field) ==
    IF IsSome(field.nested_fields) THEN bySerial(Val(field.nested_fields)) ELSE <<>>

\* the add-field calls of top-level fields in the order given: each field,
\* then its children
RECURSIVE planInOrder(_, _)
planInOrder(modelName, fields) ==
    IF Len(fields) = 0 THEN <<>>
    ELSE <<addFieldArgs(modelName, Head(fields))>>
         \o callsOf(modelName, childrenOf(Head(fields)))
         \o planInOrder(modelName, Tail(fields))

\* the add-field calls of a run: top-level fields in ascending serial order
planOf(modelName, fields) == planInOrder(modelName, bySerial(fields))

\* the fields of the definitions, resolved
resolvedFields(r) == [i \in 1..Len(r.value) |-> resolveParsedField(r.value[i])]

\* a step of the run failed: the handler threw or returned an error result
stepFailed(r) == IF r.threw THEN TRUE ELSE r.value.isError

\* the calls of the run after a step that got the answer net
emittedAfter(r, net) ==
    calls \o [i \in 1..Len(r.sent) |->
                 [request |-> r.sent[i], failed |-> net.kind # "ok"]]

\* the run fails at a step
failAt(step) == [run EXCEPT !.state = "Failed", !.failed_at = Some(step)]

\* the model names and the lists of definitions given to the orchestrator
OrchModelNames == {TaskName, <<"L","i","s","t">>, <<"9","a","b","c">>}
OrchInputs == SeqsUpTo(ListPool, MaxDefs)

\* the run is given a model name and the resolved fields of the definitions
BeginWith(name, ws, defs, r) ==
    /\ ~r.threw
    /\ run' = [state |-> "ValidatingModel", model_name |-> name,
               fields |-> resolvedFields(r), pending |-> <<>>, failed_at |-> None]
    /\ shapes' = ws
    /\ fieldDefs' = defs
    /\ UNCHANGED <<toolVars, parsed, pop, calls, pureVars, workerVars>>

BeginOn(name, ws, defs) == BeginWith(name, ws, defs, parseFields(defs))

StartRun ==
    /\ run.state = "Idle"
    /\ \E name \in OrchModelNames, ws \in OrchInputs :
          BeginOn(name, ws, [i \in 1..Len(ws) |-> Render(ws[i])])

\* step 1: the model name is validated before any remote call
ValidateModel ==
    /\ run.state = "ValidatingModel"
    /\ run' = IF IsSome(validateModelName(run.model_name))
              THEN failAt(<<"model name">>)
              ELSE [run EXCEPT !.state = "CreatingModel"]
    /\ UNCHANGED <<toolVars, parserVars, calls, pureVars, workerVars>>

ModelCreated(r, net) ==
    /\ run' = IF stepFailed(r)
              THEN failAt(<<"create model">>)
              ELSE [run EXCEPT !.state = "AddingFields",
                               !.pending = planOf(run.model_name, run.fields)]
    /\ calls' = emittedAfter(r, net)
    /\ UNCHANGED <<toolVars, parserVars, pureVars, workerVars>>

\* step 2: the create-model call
CreateModelStep ==
    /\ run.state = "CreatingModel"
    /\ \E net \in MutationNets :
          ModelCreated(handleCreateModel([model_name |-> run.model_name,
                                          single_record |-> None], net), net)

FieldAdded(r, net) ==
    /\ run' = IF stepFailed(r)
              THEN failAt(<<"add field", Head(run.pending).field_label>>)
              ELSE [run EXCEPT !.pending = Tail(run.pending)]
    /\ calls' = emittedAfter(r, net)
    /\ UNCHANGED <<toolVars, parserVars, pureVars, workerVars>>

\* step 3: the next add-field call, validated and then issued
AddFieldStep ==
    /\ run.state = "AddingFields"
    /\ run.pending # <<>>
    /\ \E net \in MutationNets : FieldAdded(handleAddField(Head(run.pending), net), net)

\* every field was added
FinishRun ==
    /\ run.state = "AddingFields"
    /\ run.pending = <<>>
    /\ run' = [run EXCEPT !.state = "Done"]
    /\ UNCHANGED <<toolVars, parserVars, calls, pureVars, workerVars>>

NextOrch ==
    \/ StartRun
    \/ ValidateModel
    \/ CreateModelStep
    \/ AddFieldStep
    \/ FinishRun

\* a step of a run that was started
RunStep ==
    \/ ValidateModel
    \/ CreateModelStep
    \/ AddFieldStep
    \/ FinishRun

\* a run that was started goes on until it is done or has failed: every
\* remote call returns or fails
SpecOrch == Init /\ [][NextOrch]_vars /\ WF_vars(RunStep)

-----------------------------------------------------------------------------
(* The type resolver applied to definitions and names *)

\* the words names are made of: one of each keyword set, a plain one, one
\* with a capital letter
ResolverWords ==
    { <<"d","a","t","e">>, <<"D","a","t","e">>, <<"c","o","u","n","t">>,
      <<"i","s","_">>, <<"n","o","t","e">>, <<"i","m","a","g","e">>,
      <<"u","r","l">>, <<"x">>, <<"i","t","e","m","s">> }

\* names of up to MaxWords words joined by '_', and the empty name
ResolverNames ==
    { Join(ws, <<"_">>) : ws \in SeqsUpTo(ResolverWords, MaxWords) }

\* what follows the name in a definition: nothing, white space, array
\* syntax, object syntax, both
ResolverSuffixes ==
    { <<>>, <<" ">>, <<"[","]">>, <<"[","a","]">>, <<"{","a","}">>,
      <<"{","a","}","[","]">> }

\* the fieldName argument: not given, empty, the definition, the bare name
FieldNameOf(kind, name, def) ==
    CASE kind = "none" -> None
      [] kind = "empty" -> Some(<<>>)
      [] kind = "def" -> Some(def)
      [] OTHER -> Some(name)

Resolved(fieldDef, fieldName) ==
    /\ resolution' = [op |-> "resolveFieldType", fieldDef |-> fieldDef,
                      fieldName |-> fieldName,
                      value |-> Some(resolveFieldType(fieldDef, fieldName)),
                      ambiguous |-> None]
    /\ UNCHANGED <<toolVars, parserVars, orchVars, operations, workerVars>>

\* FieldResolver.resolveFieldType on a definition, with or without a name
ResolveFieldType ==
    /\ resolution.op = "none"
    /\ \E name \in ResolverNames, suffix \in ResolverSuffixes,
          kind \in {"none", "empty", "def", "name"} :
          Resolved(name \o suffix, FieldNameOf(kind, name, name \o suffix))

\* FieldResolver.isAmbiguous on a definition
IsAmbiguous ==
    /\ resolution.op = "none"
    /\ \E name \in ResolverNames, suffix \in ResolverSuffixes :
          resolution' = [op |-> "isAmbiguous", fieldDef |-> name \o suffix,
                         fieldName |-> None, value |-> None,
                         ambiguous |-> Some(isAmbiguous(name \o suffix))]
    /\ UNCHANGED <<toolVars, parserVars, orchVars, operations, workerVars>>

\* FieldResolver.getSuggestedTypes on a name or a definition
GetSuggestedTypes ==
    /\ resolution.op = "none"
    /\ \E name \in ResolverNames, suffix \in ResolverSuffixes :
          resolution' = [op |-> "getSuggestedTypes", fieldDef |-> name \o suffix,
                         fieldName |-> None,
                         value |-> Some(getSuggestedTypes(name \o suffix)),
                         ambiguous |-> None]
    /\ UNCHANGED <<toolVars, parserVars, orchVars, operations, workerVars>>

NextResolver ==
    \/ ResolveFieldType
    \/ IsAmbiguous
    \/ GetSuggestedTypes

SpecResolver == Init /\ [][NextResolver]_vars

-----------------------------------------------------------------------------
(* The naming-convention deriver of get_project_query_structure *)

\* String.prototype.toUpperCase, one character
UpperChar(c) ==
    IF \E i \in 1..26 : LowerChars[i] = c
    THEN UpperChars[CHOOSE i \in 1..26 : LowerChars[i] = c]
    ELSE c

\* the string with its first character in lower case, in upper case
lowerFirst(m) == IF m = <<>> THEN m ELSE <<LowerChar(m[1])>> \o Tail(m)
upperFirst(m) == IF m = <<>> THEN m ELSE <<UpperChar(m[1])>> \o Tail(m)

\* the operation names made of the singular form and its Pascal-case form
operationNames(singular, pascal) ==
    [get |-> singular,
     list |-> singular \o <<"L","i","s","t">>,
     count |-> singular \o <<"L","i","s","t","C","o","u","n","t">>,
     create |-> <<"c","r","e","a","t","e">> \o pascal,
     update |-> <<"u","p","d","a","t","e">> \o pascal,
     delete |-> <<"d","e","l","e","t","e">> \o pascal,
     upsert |-> <<"u","p","s","e","r","t">> \o pascal \o <<"L","i","s","t">>]

\* derive with the whole model name in lower case
derive_LowerAll(modelName) ==
    operationNames(toLowerCase(modelName), upperFirst(toLowerCase(modelName)))

\* derive with the list operation named as the singular form
derive_ListUnsuffixed(modelName) ==
    [operationNames(lowerFirst(modelName), upperFirst(lowerFirst(modelName)))
        EXCEPT !.list = lowerFirst(modelName)]

\* derive: the seven operation names of a model
derive(modelName) ==
    operationNames(lowerFirst(modelName), upperFirst(lowerFirst(modelName)))

\* the model names given to the deriver
DeriverAlphabet == {"t", "T", "a", "9", "_"}
DeriverNames ==
    SeqsUpTo(DeriverAlphabet, MaxNameLen)
    \cup { <<"T","a","s","k">>, <<"t","a","s","k">>,
           <<"D","e","n","t","a","l","A","s","s","e","s","s","m","e","n","t">> }

\* derive applied to a model name
Derive ==
    /\ operations = NotDerived
    /\ \E m \in DeriverNames :
          operations' = [modelName |-> Some(m), names |-> Some(derive(m))]
    /\ UNCHANGED <<toolVars, parserVars, orchVars, resolution, workerVars>>

NextDeriver ==
    \/ Derive

SpecDeriver == Init /\ [][NextDeriver]_vars

-----------------------------------------------------------------------------
(* worker.ts *)

\* String.prototype.startsWith and String.prototype.endsWith
startsWith(s, prefix) ==
    Len(s) >= Len(prefix) /\ SubSeq(s, 1, Len(prefix)) = prefix
endsWith(s, suffix) ==
    Len(s) >= Len(suffix) /\ SubSeq(s, Len(s) - Len(suffix) + 1, Len(s)) = suffix

\* the index of the first occurrence of pat in s
indexOf(s, pat) ==
    CHOOSE i \in 1..(Len(s) - Len(pat) + 1) :
        /\ SubSeq(s, i, i + Len(pat) - 1) = pat
        /\ \A j \in 1..(i - 1) : SubSeq(s, j, j + Len(pat) - 1) # pat

\* String.prototype.replace with a string pattern: the first occurrence
replace(s, pat, rep) ==
    IF ~includesText(s, pat) THEN s
    ELSE SubSeq(s, 1, indexOf(s, pat) - 1) \o rep
         \o SubSeq(s, indexOf(s, pat) + Len(pat), Len(s))

\* 'Bearer '
BearerPrefix ==
    <<"B","e","a","r","e","r"," ">>
\* 'https://api.apito.io/system/graphql'
DefaultEndpoint ==
    <<"h","t","t","p","s",":","/","/","a","p","i",".","a","p","i","t","o",
      ".","i","o","/","s","y","s","t","e","m","/","g","r","a","p","h","q",
      "l">>
\* '/secured/graphql' and '/system/graphql'
SecuredPath ==
    <<"/","s","e","c","u","r","e","d","/","g","r","a","p","h","q","l">>
SystemPath ==
    <<"/","s","y","s","t","e","m","/","g","r","a","p","h","q","l">>
\* '/sse'
SsePath ==
    <<"/","s","s","e">>
\* getOrCreateServer taking the header X-Apito-Key before Authorization
authTokenOf_HeaderFirst(req) ==
    IF TruthyChars(req.apiKeyHeader) THEN req.apiKeyHeader
    ELSE IF /\ TruthyChars(req.authorization)
            /\ startsWith(Val(req.authorization), BearerPrefix)
    THEN Some(SubSeq(Val(req.authorization), Len(BearerPrefix) + 1,
                     Len(Val(req.authorization))))
    ELSE IF TruthyChars(req.queryApiKey) THEN req.queryApiKey
    ELSE None

\* getOrCreateServer: authToken, from the Authorization header after
\* 'Bearer ', else the X-Apito-Key header, else the api_key query parameter
authTokenOf(req) ==
    IF /\ TruthyChars(req.authorization)
       /\ startsWith(Val(req.authorization), BearerPrefix)
    THEN Some(SubSeq(Val(req.authorization), Len(BearerPrefix) + 1,
                     Len(Val(req.authorization))))
    ELSE IF TruthyChars(req.apiKeyHeader) THEN req.apiKeyHeader
    ELSE IF TruthyChars(req.queryApiKey) THEN req.queryApiKey
    ELSE None

\* getOrCreateServer: graphqlEndpoint, the endpoint of the environment or the
\* default, with /secured/graphql turned into /system/graphql
graphqlEndpointOf(env) ==
    replace(IF TruthyChars(env) THEN Val(env) ELSE DefaultEndpoint,
            SecuredPath, SystemPath)

\* the cache key made of the API key alone
cacheKey_TokenOnly(authToken, graphqlEndpoint) == authToken

\* getOrCreateServer: cacheKey
cacheKey(authToken, graphqlEndpoint) == authToken \o <<":">> \o graphqlEndpoint

\* new ApitoMCPServer(graphqlEndpoint, authToken): the GraphQL client is not
\* created yet
newServer(graphqlEndpoint, authToken) ==
    [graphqlEndpoint |-> graphqlEndpoint, authToken |-> authToken, client |-> FALSE]

\* what getOrCreateServer gives: the server (its place in all), the cache and
\* the instances constructed so far
Got(server, cache, all) ==
    [threw |-> FALSE, server |-> server, cache |-> cache, servers |-> all]

\* the end of getOrCreateServer: the cached server of the key, or a new one
\* that is put in the cache
cached(key, graphqlEndpoint, authToken, cache, all) ==
    IF \E e \in cache : e.key = key
    THEN Got((CHOOSE e \in cache : e.key = key).server, cache, all)
    ELSE Got(Len(all) + 1,
             cache \cup {[key |-> key, server |-> Len(all) + 1]},
             Append(all, newServer(graphqlEndpoint, authToken)))

\* getOrCreateServer: without an API key it throws before the cache is used
getOrCreateServer(req, env, cache, all) ==
    IF ~TruthyChars(authTokenOf(req))
    THEN [threw |-> TRUE, server |-> 0, cache |-> cache, servers |-> all]
    ELSE cached(cacheKey(Val(authTokenOf(req)), graphqlEndpointOf(env)),
                graphqlEndpointOf(env), Val(authTokenOf(req)), cache, all)

\* a Response of the worker: what it is, its status, the JSON-RPC message in
\* it, and the credentials of the remote requests made to produce it
WorkerResponse(kind, status, rpc, remoteAs) ==
    [kind |-> kind, status |-> status, rpc |-> rpc, remoteAs |-> remoteAs]

\* what fetch gives: the Response, the server that served the request (0 when
\* none did), the cache and the instances
Fetched(resp, got) ==
    [response |-> resp, server |-> got.server, cache |-> got.cache,
     servers |-> got.servers]

\* the Response of both catch blocks of fetch
ErrorResponse(message) ==
    WorkerResponse("error", 200, RpcError(None, -32000, message), None)

\* the Response for the root and for other paths
InfoResponse == WorkerResponse("info", 200, NoResponse, None)

\* server.handleMCPRequest(body) on the server got: the handlers of
\* ClientMethods create its GraphQL client, which sends the remote requests
\* to the endpoint and with the API key the server was constructed with
handled(body, got, out) ==
    Fetched(WorkerResponse("rpc", 200, out.response,
                IF Len(out.sent) > 0
                THEN Some([graphqlEndpoint |-> got.servers[got.server].graphqlEndpoint,
                           authToken |-> got.servers[got.server].authToken])
                ELSE None),
            [got EXCEPT !.servers[got.server].client =
                            @ \/ body.method \in ClientMethods])

\* the POST branch of fetch: request.json() throws for a body that is not
\* JSON; the second getOrCreateServer finds the server in the cache
posted(req, got) ==
    IF ~IsSome(req.body)
    THEN Fetched(ErrorResponse("Unexpected token"), got)
    ELSE handled(Val(req.body), got, handleMCPRequest(Val(req.body), req.net))

\* the SSE branch of fetch after getOrCreateServer
onSse(req, got) ==
    IF got.threw THEN Fetched(ErrorResponse("APITO_API_KEY must be provided"), got)
    ELSE IF req.method = "GET"
    THEN Fetched(WorkerResponse("stream", 200,
                     RpcResult(1, [serverInfo |-> "apito-mcp"]), None), got)
    ELSE IF req.method = "POST" THEN posted(req, got)
    ELSE Fetched(InfoResponse, got)

\* fetch: the CORS preflight, the SSE endpoint, any other path
fetch(req, env, cache, all) ==
    IF req.method = "OPTIONS"
    THEN Fetched(WorkerResponse("preflight", 204, NoResponse, None), Got(0, cache, all))
    ELSE IF req.pathname = SsePath \/ endsWith(req.pathname, SsePath)
    THEN onSse(req, getOrCreateServer(req, env, cache, all))
    ELSE Fetched(InfoResponse, Got(0, cache, all))

-----------------------------------------------------------------------------
(* The worker answering HTTP requests *)

\* API keys, and the values of the headers and of the query parameter
KeyOne ==
    <<"a","k","_","1">>
KeyTwo ==
    <<"a","k","_","2">>
AuthorizationValues ==
    { None, Some(BearerPrefix \o KeyOne), Some(BearerPrefix \o KeyTwo),
      Some(<<"B","a","s","i","c"," ">> \o KeyOne) }
ApiKeyHeaderValues == { None, Some(<<>>), Some(KeyTwo) }
QueryApiKeyValues == { None, Some(KeyOne) }

\* APITO_GRAPHQL_ENDPOINT: not set, empty, or the /secured/graphql endpoint
\* of one of two hosts
SecuredEndpoint ==
    <<"h","t","t","p","s",":","/","/","a","p","i",".","a","p","i","t","o",
      ".","i","o","/","s","e","c","u","r","e","d","/","g","r","a","p","h",
      "q","l">>
OtherEndpoint ==
    <<"h","t","t","p","s",":","/","/","e","u",".","a","p","i","t","o",".",
      "i","o","/","s","e","c","u","r","e","d","/","g","r","a","p","h","q",
      "l">>
WorkerEnvs == { None, Some(<<>>), Some(SecuredEndpoint), Some(OtherEndpoint) }

\* the body of a POST and what the remote system answers while it is
\* handled: not JSON, tools/list, list_models
WorkerBodies ==
    { [body |-> None, net |-> NoNet],
      [body |-> Some([id |-> 1, method |-> "tools/list", params |-> None]),
       net |-> NoNet],
      [body |-> Some(ToolCall(2, "list_models", None)),
       net |-> [kind |-> "ok", data |-> Some(<<ModelA>>)]],
      [body |-> Some(ToolCall(2, "list_models", None)),
       net |-> [kind |-> "networkError", data |-> None]] }

WorkerPaths == { SsePath, <<"/","v","1">> \o SsePath, <<"/">> }

WorkerRequest(method, pathname, a, h, q, b) ==
    [method |-> method, pathname |-> pathname, authorization |-> a,
     apiKeyHeader |-> h, queryApiKey |-> q, body |-> b.body, net |-> b.net]

\* the worker took the request and has its Response; at most MaxServers
\* servers are constructed
Deliver(req, env, out) ==
    /\ Len(out.servers) <= MaxServers
    /\ serverCache' = out.cache
    /\ servers' = out.servers
    /\ fetched' = [request |-> Some(req), env |-> env,
                   response |-> Some(out.response), server |-> out.server]
    /\ UNCHANGED <<toolVars, parserVars, orchVars, pureVars>>

Fetch(req, env) == Deliver(req, env, fetch(req, env, serverCache, servers))

\* a request without a body
FetchPlain ==
    /\ fetched = NotFetched
    /\ \E method \in {"GET", "OPTIONS", "DELETE"}, pathname \in WorkerPaths,
          a \in AuthorizationValues, h \in ApiKeyHeaderValues,
          q \in QueryApiKeyValues, env \in WorkerEnvs :
          Fetch(WorkerRequest(method, pathname, a, h, q,
                              [body |-> None, net |-> NoNet]), env)

\* a POST with a body
FetchPost ==
    /\ fetched = NotFetched
    /\ \E pathname \in WorkerPaths,
          a \in AuthorizationValues, h \in ApiKeyHeaderValues,
          q \in QueryApiKeyValues, env \in WorkerEnvs, b \in WorkerBodies :
          Fetch(WorkerRequest("POST", pathname, a, h, q, b), env)

\* the Response is sent; the cache and the servers stay
Reply ==
    /\ fetched # NotFetched
    /\ fetched' = NotFetched
    /\ UNCHANGED <<toolVars, parserVars, orchVars, pureVars, serverCache, servers>>

NextWorker ==
    \/ FetchPlain
    \/ FetchPost
    \/ Reply

SpecWorker == Init /\ [][NextWorker]_vars

-----------------------------------------------------------------------------
(* Properties of the tool and resource operations (specification Spec) *)

IsToolCall(name) ==
    /\ request.method = "tools/call"
    /\ request.params.name = name

\* the response is a tool result flagged isError
IsErrorResult ==
    /\ response.kind = "result"
    /\ response.result.isError

\* a remote request was sent and the remote system failed it
RemoteFailed == Len(sent) > 0 /\ remote.kind # "ok"

\* a model name the gate of create_model must refuse: a reserved word in any
\* letter case, or a name starting with a digit
RefusedModelName(name) ==
    \/ \E r \in ReservedNames :
          /\ Len(r) = Len(name)
          /\ \A i \in 1..Len(r) : LowerChar(name[i]) = r[i]
    \/ Len(name) > 0 /\ name[1] \in Digits

\* C1: create_model with a model name that is a reserved word (list, user,
\* system, function) in any letter case, or that starts with a digit, fails
\* with an invalid-model-name error and issues no remote call.
C1_CreateModelGate ==
    (IsToolCall("create_model")
        /\ RefusedModelName(request.params.arguments.model_name))
    => /\ IsErrorResult
       /\ response.result.text \in {"Model name is reserved",
                                    "Model name cannot start with a number"}
       /\ sent = <<>>

\* C1 witness: create_model was called with a reserved word not in lower case
\* and was refused
C1_Witness ==
    /\ IsToolCall("create_model")
    /\ request.params.arguments.model_name = <<"L","i","s","t">>
    /\ IsErrorResult
    /\ response.result.text = "Model name is reserved"
    /\ sent = <<>>

\* the option data a dropdown or multiSelect field needs is missing:
\* fixed_list_elements absent, not an array or empty, or
\* fixed_list_element_type absent
MissingOptionData(validation) ==
    \/ ~IsSome(validation)
    \/ ~IsSome(Val(validation).fixed_list_elements)
    \/ ~Val(Val(validation).fixed_list_elements).isArray
    \/ Val(Val(validation).fixed_list_elements).length = 0
    \/ ~IsSome(Val(validation).fixed_list_element_type)

\* C2: add_field with field_sub_type dropdown or multiSelect and without a
\* non-empty array validation.fixed_list_elements, or without
\* validation.fixed_list_element_type, returns a missing-required-validation
\* error and issues no remote call.
C2_AddFieldValidationGate ==
    (IsToolCall("add_field")
        /\ request.params.arguments.field_sub_type
               \in {Some("dropdown"), Some("multiSelect")}
        /\ MissingOptionData(request.params.arguments.validation))
    => /\ IsErrorResult
       /\ response.result.text
              \in {"Error: validation.fixed_list_elements is REQUIRED",
                   "Error: validation.fixed_list_element_type is REQUIRED"}
       /\ sent = <<>>

\* C2 witness: a multiSelect field with an empty option array was refused
C2_Witness ==
    /\ IsToolCall("add_field")
    /\ request.params.arguments.field_sub_type = Some("multiSelect")
    /\ IsSome(request.params.arguments.validation)
    /\ Val(request.params.arguments.validation).fixed_list_elements
           = Some([truthy |-> TRUE, isArray |-> TRUE, length |-> 0])
    /\ IsErrorResult
    /\ sent = <<>>

\* a remote upsert-field request was sent
SentUpsertField == \E i \in 1..Len(sent) : sent[i].query = "UpsertFieldToModel"

\* C3: add_field with field_type list and no field_sub_type returns an error
\* result and issues no remote call; a list field reaches the remote
\* upsert-field call only when a sub-type is given.
C3_ListNeedsSubType ==
    IsToolCall("add_field") /\ request.params.arguments.field_type = "list"
    => /\ request.params.arguments.field_sub_type = None
            => IsErrorResult /\ sent = <<>>
       /\ SentUpsertField => IsSome(request.params.arguments.field_sub_type)

\* C3 witness: a list field without a sub-type was refused
C3_Witness ==
    /\ IsToolCall("add_field")
    /\ request.params.arguments.field_type = "list"
    /\ request.params.arguments.field_sub_type = None
    /\ IsErrorResult
    /\ response.result.text = "Error: field_sub_type is required"
    /\ sent = <<>>

\* the tool and resource operations that talk to the remote system
IsRemoteOperation ==
    \/ /\ request.method = "tools/call"
       /\ request.params.name \in DispatchedTools
    \/ request.method \in {"resources/list", "resources/read"}

\* the caller is told of a failure: a JSON-RPC error or an isError result
ReportsError ==
    \/ response.kind = "error"
    \/ /\ response.kind = "result"
       /\ request.method = "tools/call"
       /\ response.result.isError

\* C7: every tool or resource operation sends at most one remote request per
\* invocation, and a failed request is reported to the caller rather than
\* re-sent.
C7_NoRetryFailureReported ==
    IsRemoteOperation
    => /\ Len(sent) <= 1
       /\ RemoteFailed => ReportsError

-----------------------------------------------------------------------------
(* Properties of the parser (specification SpecParser) *)

\* every definition of the input was written as a scalar name or as a
\* container with a name and at least one child name
AllWellFormed == \A i \in 1..Len(shapes) : shapes[i].form # "raw"

\* C8: for any list of N well-formed definitions, parseFields returns N fields
\* in input order whose top-level serials are exactly 1..N, whether a
\* definition is a scalar, an object or an array and however many children
\* it has.
C8_ParseFieldsSerials ==
    (pop.op = "parseFields" /\ AllWellFormed)
    => /\ ~parsed.threw
       /\ Len(parsed.value) = Len(fieldDefs)
       /\ \A i \in 1..Len(fieldDefs) :
             /\ parsed.value[i].serial = Some(i)
             /\ parsed.value[i].name = shapes[i].name
             /\ shapes[i].form = "scalar" => parsed.value[i].nested_fields = None
             /\ shapes[i].form # "scalar" =>
                   /\ IsSome(parsed.value[i].nested_fields)
                   /\ Len(Val(parsed.value[i].nested_fields)) = Len(shapes[i].kids)

\* C8 witness: three definitions, the second an object with two children,
\* were parsed and the third field has serial 3
C8_Witness ==
    /\ pop.op = "parseFields"
    /\ Len(fieldDefs) = 3
    /\ shapes[1].form = "scalar"
    /\ shapes[2].form = "object"
    /\ Len(shapes[2].kids) = 2
    /\ shapes[3].form = "array"
    /\ ~parsed.threw
    /\ parsed.value[3].serial = Some(3)

\* the field is the container written as shape w: named w.name, tagged tag,
\* with the children of w in order, serial 1..k and the container as parent
IsContainerOf(field, w, tag) ==
    /\ field.name = w.name
    /\ field.field_type = tag
    /\ field.input_type = tag
    /\ IsSome(field.nested_fields)
    /\ Len(Val(field.nested_fields)) = Len(w.kids)
    /\ \A i \in 1..Len(w.kids) :
          /\ Val(field.nested_fields)[i].name = w.kids[i]
          /\ Val(field.nested_fields)[i].serial = Some(i)
          /\ Val(field.nested_fields)[i].parent_field = Some(w.name)

\* C9: for a well-formed definition 'name { c1 ... ck }' parseField returns a
\* field named name tagged object (field_type and input_type object,
\* is_object true) whose nested_fields are c1..ck in order with serial 1..k
\* and parent_field = name; for 'name [ c1 ... ck ]' it returns the same shape
\* tagged repeated (is_array true) instead of object.
C9_ContainerParseShape ==
    (pop.op = "parseField" /\ shapes[1].form \in {"object", "array"})
    => /\ ~parsed.threw
       /\ shapes[1].form = "object" =>
             /\ IsContainerOf(parsed.value, shapes[1], "object")
             /\ parsed.value.is_object = Some(TRUE)
             /\ parsed.value.is_array # Some(TRUE)
       /\ shapes[1].form = "array" =>
             /\ IsContainerOf(parsed.value, shapes[1], "repeated")
             /\ parsed.value.is_array = Some(TRUE)
             /\ parsed.value.is_object # Some(TRUE)

\* C9 witness: an object definition with two children and extra white space
\* was parsed into an object field with two nested fields
C9_Witness ==
    /\ pop.op = "parseField"
    /\ shapes[1].form = "object"
    /\ Len(shapes[1].kids) = 2
    /\ shapes[1].sep = 2
    /\ shapes[1].lead = 1
    /\ ~parsed.threw
    /\ parsed.value.field_type = "object"
    /\ Len(Val(parsed.value.nested_fields)) = 2
    /\ Val(parsed.value.nested_fields)[2].serial = Some(2)

\* the definition has a bracket or brace container form: it contains both
\* square brackets or both braces
HasContainerForm(def) ==
    \/ (\E i \in 1..Len(def) : def[i] = "[") /\ (\E i \in 1..Len(def) : def[i] = "]")
    \/ (\E i \in 1..Len(def) : def[i] = "{") /\ (\E i \in 1..Len(def) : def[i] = "}")

\* t is def without its leading and trailing white space
IsTrimOf(t, def) ==
    /\ \E i, j \in 0..Len(def) : def = Spaces(i) \o t \o Spaces(j)
    /\ t # <<>> => t[1] # " " /\ t[Len(t)] # " "

\* C10: for every definition with no bracket or brace container form,
\* parseField returns a field whose name is the trimmed definition, with
\* nested_fields absent, is_object and is_array not set, and the placeholder
\* type text/string.
C10_ScalarParse ==
    (pop.op = "parseField" /\ ~HasContainerForm(fieldDefs[1]))
    => /\ ~parsed.threw
       /\ IsTrimOf(parsed.value.name, fieldDefs[1])
       /\ parsed.value.nested_fields = None
       /\ parsed.value.is_object = None
       /\ parsed.value.is_array = None
       /\ parsed.value.field_type = "text"
       /\ parsed.value.input_type = "string"

\* C10 witness: a scalar name with white space around it was parsed into a
\* text field named without the white space
C10_Witness ==
    /\ pop.op = "parseField"
    /\ fieldDefs[1] = <<" ","d","a","t","e"," ">>
    /\ ~parsed.threw
    /\ parsed.value.name = <<"d","a","t","e">>
    /\ parsed.value.field_type = "text"
    /\ parsed.value.nested_fields = None

-----------------------------------------------------------------------------
(* Properties of the orchestrator (specification SpecOrch) *)

\* the call is an add-field call, of a top-level field or of a child
IsAddFieldCall(c) == c.request.query = "UpsertFieldToModel"
IsTopLevelCall(c) == IsAddFieldCall(c) /\ c.request.variables.parent_field = None
IsChildCall(c) == IsAddFieldCall(c) /\ IsSome(c.request.variables.parent_field)

\* calls[i] is the add-field call of a container named name
IsContainerCall(i, name) ==
    /\ IsTopLevelCall(calls[i])
    /\ calls[i].request.variables.field_label = name

\* calls[j] is the add-field call of the child kid of the container name
IsChildCallOf(j, kid, name) ==
    /\ IsAddFieldCall(calls[j])
    /\ calls[j].request.variables.field_label = kid
    /\ calls[j].request.variables.parent_field = Some(name)

\* C4: in every orchestration run, for every container (object or repeated)
\* field with children, the add-field call of the container is emitted
\* strictly before the add-field call of each of its children, and each child
\* call carries parent_field equal to the name of the container.
C4_ParentBeforeChild ==
    /\ \A j \in 1..Len(calls) :
          IsChildCall(calls[j])
          => \E i \in 1..(j - 1) :
                IsContainerCall(i, Val(calls[j].request.variables.parent_field))
    /\ run.state = "Done"
       => \A w \in 1..Len(shapes) :
             shapes[w].form \in {"object", "array"}
             => \A k \in 1..Len(shapes[w].kids) :
                   \E j \in 1..Len(calls), i \in 1..Len(calls) :
                      /\ i < j
                      /\ IsContainerCall(i, shapes[w].name)
                      /\ IsChildCallOf(j, shapes[w].kids[k], shapes[w].name)

\* C4 witness: a run over an object with two children and a scalar is done
\* and emitted the call of the second child with the object as parent
C4_Witness ==
    /\ run.state = "Done"
    /\ Len(shapes) = 2
    /\ shapes[1].form = "object"
    /\ Len(shapes[1].kids) = 2
    /\ Len(calls) = 5
    /\ IsContainerCall(2, shapes[1].name)
    /\ IsChildCallOf(4, shapes[1].kids[2], shapes[1].name)

\* the serial carried by a call
CallSerial(c) == Val(c.request.variables.serial)

\* no add-field call of a top-level field lies between calls[i] and calls[j]
SameContainer(i, j) == \A m \in i..j : ~IsTopLevelCall(calls[m])

\* C5: in every run that passes model-name validation, the create-model call
\* is the first remote call and precedes every add-field call, and the
\* top-level add-field calls are issued in ascending serial order, the
\* children of one container in ascending child serial order.
C5_CallOrder ==
    /\ run.state \in {"AddingFields", "Done"} => Len(calls) >= 1
    /\ Len(calls) >= 1 => calls[1].request.query = "AddModelToProject"
    /\ \A j \in 2..Len(calls) : IsAddFieldCall(calls[j])
    /\ \A i, j \in 1..Len(calls) :
          (i < j /\ IsTopLevelCall(calls[i]) /\ IsTopLevelCall(calls[j]))
          => CallSerial(calls[i]) < CallSerial(calls[j])
    /\ \A i, j \in 1..Len(calls) :
          (i < j /\ IsChildCall(calls[i]) /\ IsChildCall(calls[j])
             /\ SameContainer(i, j))
          => CallSerial(calls[i]) < CallSerial(calls[j])

\* C5 witness: a run over three definitions is done; its first call created
\* the model and its last call added the top-level field of serial 3
C5_Witness ==
    /\ run.state = "Done"
    /\ Len(run.fields) = 3
    /\ shapes[2].form = "object"
    /\ Len(calls) >= 6
    /\ calls[1].request.query = "AddModelToProject"
    /\ IsTopLevelCall(calls[Len(calls)])
    /\ CallSerial(calls[Len(calls)]) = 3

\* a remote call of the run failed
SomeCallFailed == \E i \in 1..Len(calls) : calls[i].failed

\* the steps a run may take from one state to the next
RunSteps ==
    { <<"Idle", "ValidatingModel">>,
      <<"ValidatingModel", "CreatingModel">>, <<"ValidatingModel", "Failed">>,
      <<"CreatingModel", "AddingFields">>, <<"CreatingModel", "Failed">>,
      <<"AddingFields", "AddingFields">>, <<"AddingFields", "Done">>,
      <<"AddingFields", "Failed">> }

\* C6: once any remote call of a run fails, no further remote call is issued
\* in that run; the run moves through Idle, ValidatingModel, CreatingModel,
\* AddingFields and ends in exactly one of Done or Failed, never re-entering
\* an earlier step and never leaving Failed.
C6_HaltOnFirstFailure ==
    /\ [][ /\ SomeCallFailed => calls' = calls
           /\ <<run.state, run'.state>> \in RunSteps
           /\ (run.state = "AddingFields" /\ run'.state = "AddingFields")
              => Len(run'.pending) < Len(run.pending) ]_vars
    /\ (run.state # "Idle") ~> [](run.state \in {"Done", "Failed"})

\* C6 witness: the add-field call of a container failed after two calls had
\* succeeded, the run has failed and calls of the plan were never issued
C6_Witness ==
    /\ run.state = "Failed"
    /\ Len(calls) = 3
    /\ calls[3].failed
    /\ ~calls[1].failed
    /\ ~calls[2].failed
    /\ Len(run.pending) >= 2

-----------------------------------------------------------------------------
(* Properties of the parser: malformed definitions (specification SpecParser) *)

\* def has an opener that no closer of its kind follows
HasUnclosedOpener(def, open, close) ==
    \E i \in 1..Len(def) :
        /\ def[i] = open
        /\ \A j \in (i + 1)..Len(def) : def[j] # close

\* C11: for every definition that contains an opening '[' or '{' without a
\* matching closing counterpart (such as 'a [ b c' or 'a { b'), parseField
\* fails with a malformed-definition error and returns no field.
C11_UnclosedOpenerRejected ==
    (pop.op = "parseField"
        /\ (HasUnclosedOpener(fieldDefs[1], "[", "]")
            \/ HasUnclosedOpener(fieldDefs[1], "{", "}")))
    => /\ parsed.threw
       /\ parsed.value = None

\* def, without the white space around it, begins with the opener and has
\* the closer later on: a complete container form with no name before it
IsUnnamedContainer(def, open, close) ==
    \E i \in 1..Len(def) :
        /\ def[i] = open
        /\ \A j \in 1..(i - 1) : def[j] \in WhiteSpace
        /\ \E j \in (i + 1)..Len(def) : def[j] = close

\* C12: for every definition that has a complete bracket or brace container
\* form but no field name before it (such as '[ b c ]' or '{ b c }'),
\* parseField fails with a malformed-definition error.
C12_UnnamedContainerRejected ==
    (pop.op = "parseField"
        /\ (IsUnnamedContainer(fieldDefs[1], "[", "]")
            \/ IsUnnamedContainer(fieldDefs[1], "{", "}")))
    => /\ parsed.threw
       /\ parsed.message \in {"Invalid array field format",
                              "Invalid object field format"}

\* C12 witness: the definition '{ a }' was given to parseField, which threw
C12_Witness ==
    /\ pop.op = "parseField"
    /\ fieldDefs[1] = <<"{"," ","a"," ","}">>
    /\ parsed.threw
    /\ parsed.message = "Invalid object field format"

-----------------------------------------------------------------------------
(* Properties of the type resolver (specification SpecResolver) *)

\* the text has both characters of a pair of brackets or braces
HasSyntax(text, open, close) ==
    (\E i \in 1..Len(text) : text[i] = open) /\ (\E i \in 1..Len(text) : text[i] = close)

\* one of the keywords occurs in the text
Mentions(text, keywords) ==
    \E k \in keywords : \E i \in 1..Len(text) :
        i + Len(k) - 1 <= Len(text) /\ \A j \in 1..Len(k) : text[i + j - 1] = k[j]

\* the definition of the resolver call in lower case, and the name it
\* classifies in lower case: the name given, else the definition
LoweredDef == toLowerCase(resolution.fieldDef)
LoweredName ==
    toLowerCase(IF resolution.fieldName \in {None, Some(<<>>)}
                THEN trim(resolution.fieldDef)
                ELSE Val(resolution.fieldName))

\* the definition of the call has bracket syntax, brace syntax, a collection
\* keyword
DefHasBrackets == HasSyntax(resolution.fieldDef, "[", "]")
DefHasBraces == HasSyntax(resolution.fieldDef, "{", "}")
DefHasCollectionKeyword == Mentions(LoweredDef, arrayIndicators)

\* the call returned this pair of types
ResolvedAs(fieldType, inputType) ==
    /\ IsSome(resolution.value)
    /\ Val(resolution.value).field_type = fieldType
    /\ Val(resolution.value).input_type = inputType

\* C13: for every string input, the empty string included, resolveFieldType
\* returns a result with field_type and input_type set, and the result is
\* text/string whenever no array syntax, object syntax, collection keyword or
\* name keyword set matches.
C13_ResolverTotal ==
    resolution.op = "resolveFieldType"
    => /\ IsSome(resolution.value)
       /\ Val(resolution.value).field_type
              \in {"repeated", "object", "date", "number", "boolean",
                   "multiline", "media", "text"}
       /\ Val(resolution.value).input_type
              \in {"repeated", "object", "string", "int", "bool"}
       /\ (/\ ~DefHasBrackets
           /\ ~DefHasBraces
           /\ ~DefHasCollectionKeyword
           /\ ~Mentions(LoweredName,
                        dateKeywords \cup numberKeywords \cup booleanKeywords
                        \cup multilineKeywords \cup mediaKeywords \cup urlKeywords))
          => ResolvedAs("text", "string")

\* C13 witness: the empty string was resolved to text/string
C13_Witness ==
    /\ resolution.op = "resolveFieldType"
    /\ resolution.fieldDef = <<>>
    /\ resolution.fieldName = None
    /\ ResolvedAs("text", "string")

\* the types of the first keyword set, in the fixed order, that the name
\* matches
FirstMatch(name) ==
    IF Mentions(name, dateKeywords) THEN <<"date", "string">>
    ELSE IF Mentions(name, numberKeywords) THEN <<"number", "int">>
    ELSE IF Mentions(name, booleanKeywords) THEN <<"boolean", "bool">>
    ELSE IF Mentions(name, multilineKeywords) THEN <<"multiline", "string">>
    ELSE IF Mentions(name, mediaKeywords) THEN <<"media", "string">>
    ELSE IF Mentions(name, urlKeywords) THEN <<"text", "string">>
    ELSE <<>>

\* C14: for a bare name with no array or object syntax and no collection
\* keyword, the result is that of the first matching keyword set in the
\* order date, number, boolean, multiline, media, URL; a name matching
\* several sets gets the earliest one.
C14_KeywordPriority ==
    (resolution.op = "resolveFieldType"
        /\ ~DefHasBrackets /\ ~DefHasBraces /\ ~DefHasCollectionKeyword
        /\ FirstMatch(LoweredName) # <<>>)
    => ResolvedAs(FirstMatch(LoweredName)[1], FirstMatch(LoweredName)[2])

\* C15: every definition that has bracket syntax, a '[]' suffix or a
\* collection keyword resolves to repeated/repeated, even when it also
\* carries brace syntax; object/object is returned only when none of the
\* three array checks matches.
C15_ArrayBeforeObject ==
    resolution.op = "resolveFieldType"
    => /\ (DefHasBrackets \/ DefHasCollectionKeyword)
          => ResolvedAs("repeated", "repeated")
       /\ ResolvedAs("object", "object")
          => ~(DefHasBrackets \/ DefHasCollectionKeyword)

\* C15 as amended: a definition with bracket syntax (a '[]' suffix
\* included) resolves to repeated/repeated even when it also carries brace
\* syntax; a definition with brace syntax and no bracket syntax resolves to
\* object/object even when it contains a collection keyword; a collection
\* keyword gives repeated/repeated when the definition has neither syntax.
C15_SyntaxBeforeKeyword ==
    resolution.op = "resolveFieldType"
    => /\ DefHasBrackets => ResolvedAs("repeated", "repeated")
       /\ (~DefHasBrackets /\ DefHasBraces) => ResolvedAs("object", "object")
       /\ (~DefHasBrackets /\ ~DefHasBraces /\ DefHasCollectionKeyword)
          => ResolvedAs("repeated", "repeated")

\* C15 witness: 'items{a}[]', with a collection keyword, braces and
\* brackets, was resolved to repeated/repeated
C15_Witness ==
    /\ resolution.op = "resolveFieldType"
    /\ resolution.fieldDef = <<"i","t","e","m","s","{","a","}","[","]">>
    /\ ResolvedAs("repeated", "repeated")

\* the number of the numeric, date and boolean keyword sets the text matches
SetsMatched(text) ==
    Cardinality({ ks \in {numberKeywords, dateKeywords, booleanKeywords} :
                    Mentions(text, ks) })

\* C16: for every name that is not array or object syntax and matches at
\* least two of the numeric, date and boolean keyword sets, isAmbiguous
\* returns true while resolveFieldType for the same name returns the default
\* text/string result.
C16_AmbiguityFlag ==
    (resolution.op = "isAmbiguous"
        /\ ~DefHasBrackets /\ ~DefHasBraces
        /\ SetsMatched(LoweredDef) >= 2)
    => /\ resolution.ambiguous = Some(TRUE)
       /\ resolveFieldType(resolution.fieldDef, None).field_type = "text"
       /\ resolveFieldType(resolution.fieldDef, None).input_type = "string"

-----------------------------------------------------------------------------
(* Properties of the naming deriver (specification SpecDeriver) *)

\* the model name given to the deriver and the names it returned
DerivedFrom == Val(operations.modelName)
Derived == Val(operations.names)

\* a model name of at least one character was given to the deriver
DerivedNonEmpty == IsSome(operations.modelName) /\ Len(DerivedFrom) > 0

\* the characters of the name after the first
Rest(m) == SubSeq(m, 2, Len(m))

\* C17: for every non-empty model name m, with s = m with its first
\* character lower-cased and P = s with its first character upper-cased,
\* derive(m) returns get = s, list = s+'List', count = s+'ListCount',
\* create = 'create'+P, update = 'update'+P, delete = 'delete'+P and
\* upsert = 'upsert'+P+'List'; the characters after the first are kept.
C17_OperationNames ==
    DerivedNonEmpty
    => /\ Derived.get = <<LowerChar(DerivedFrom[1])>> \o Rest(DerivedFrom)
       /\ Derived.list = Derived.get \o <<"L","i","s","t">>
       /\ Derived.count = Derived.get \o <<"L","i","s","t","C","o","u","n","t">>
       /\ Derived.create
             = <<"c","r","e","a","t","e">> \o <<UpperChar(Derived.get[1])>> \o Rest(DerivedFrom)
       /\ Derived.update
             = <<"u","p","d","a","t","e">> \o <<UpperChar(Derived.get[1])>> \o Rest(DerivedFrom)
       /\ Derived.delete
             = <<"d","e","l","e","t","e">> \o <<UpperChar(Derived.get[1])>> \o Rest(DerivedFrom)
       /\ Derived.upsert
             = <<"u","p","s","e","r","t">> \o <<UpperChar(Derived.get[1])>> \o Rest(DerivedFrom)
               \o <<"L","i","s","t">>

\* C17 witness: DentalAssessment gave dentalAssessment and
\* upsertDentalAssessmentList
C17_Witness ==
    /\ operations.modelName = Some(<<"D","e","n","t","a","l","A","s","s","e","s","s","m","e","n","t">>)
    /\ Derived.get = <<"d","e","n","t","a","l","A","s","s","e","s","s","m","e","n","t">>
    /\ Derived.upsert = <<"u","p","s","e","r","t","D","e","n","t","a","l","A","s","s","e","s","s","m","e","n","t","L","i","s","t">>

\* the seven names of a result, in a fixed order
SevenNames(names) ==
    <<names.get, names.list, names.count, names.create, names.update,
      names.delete, names.upsert>>

\* C18: for every non-empty model name, the seven derived operation names
\* (get, list, count, create, update, delete, upsert) are pairwise distinct
\* strings.
C18_OperationNamesDistinct ==
    DerivedNonEmpty
    => \A i, j \in 1..7 :
          i # j => SevenNames(Derived)[i] # SevenNames(Derived)[j]

\* C18 witness: Task gave seven names, among them createTask, updateTask and
\* deleteTask, of equal length
C18_Witness ==
    /\ operations.modelName = Some(<<"T","a","s","k">>)
    /\ Derived.create = <<"c","r","e","a","t","e","T","a","s","k">>
    /\ Derived.update = <<"u","p","d","a","t","e","T","a","s","k">>
    /\ Derived.delete = <<"d","e","l","e","t","e","T","a","s","k">>
    /\ Derived.list = <<"t","a","s","k","L","i","s","t">>

-----------------------------------------------------------------------------
(* Properties of the tool list and of error reporting (specification Spec) *)

\* the tools the README says the server exposes
ReadmeTools ==
    {"create_model", "add_field", "update_field", "rename_field",
     "delete_field", "delete_model", "list_models", "get_model_schema",
     "get_project_query_structure", "add_relation"}

\* C19: each of the ten tools the README says the server exposes is returned
\* by tools/list, and a tools/call naming a tool returned by tools/list is
\* dispatched to the handler of that tool instead of failing with
\* 'Unknown tool'.
C19_ExposedToolsCallable ==
    /\ (request.method = "tools/list" /\ response.kind = "result")
       => ReadmeTools \subseteq response.result.tools
    /\ (request.method = "tools/call" /\ request.params.name \in ListedTools)
       => ~(IsErrorResult /\ response.result.text = "Unknown tool")

\* the messages of the errors thrown for a failed remote request
FailureMessages ==
    {"Request failed: GraphQL errors", "GraphQL request failed", "Request failed"}

\* C20: whenever the remote call made by a tool call or a resource request
\* (tools/call, resources/list, resources/read) fails, the response given to
\* the caller is an error, an isError result or a JSON-RPC error, carrying
\* the failure message, never a success-shaped result.
C20_NoErrorSwallowed ==
    (request.method \in {"tools/call", "resources/list", "resources/read"}
        /\ RemoteFailed)
    => \/ /\ response.kind = "error"
          /\ response.message \in FailureMessages
       \/ /\ request.method = "tools/call"
          /\ IsErrorResult
          /\ response.result.text \in FailureMessages

-----------------------------------------------------------------------------
(* Properties of the schema lookup (specification Spec) *)

\* the discovery query was answered with a list of models
ModelsReturned == remote.kind = "ok" /\ IsSome(remote.data)

\* the request reads the resource of a model: apito://model/{name}
IsModelRead ==
    /\ request.method = "resources/read"
    /\ Len(request.params.uri) > Len(ModelUriPrefix)
    /\ SubSeq(request.params.uri, 1, Len(ModelUriPrefix)) = ModelUriPrefix

\* the response says the model was not found: an isError result of the tool,
\* an error of the resource read
SaysNotFound ==
    \/ /\ request.method = "tools/call"
       /\ IsErrorResult
       /\ response.result.text = "Model not found"
    \/ response.kind = "error" /\ response.message = "Model not found"

\* C21: get_model_schema (and reading resource apito://model/{name}) reports
\* a not-found error exactly when the discovery query returns zero models for
\* the requested name; when it returns at least one model the first model's
\* schema is returned as the result.
C21_NotFound ==
    /\ (IsToolCall("get_model_schema") \/ IsModelRead)
       => (SaysNotFound <=> (ModelsReturned /\ Len(Val(remote.data)) = 0))
    /\ (IsToolCall("get_model_schema") /\ ModelsReturned /\ Len(Val(remote.data)) > 0)
       => /\ response.kind = "result"
          /\ ~response.result.isError
          /\ response.result.model = Val(remote.data)[1]
    /\ (IsModelRead /\ ModelsReturned /\ Len(Val(remote.data)) > 0)
       => /\ response.kind = "result"
          /\ response.result.contents = Val(remote.data)[1]

\* C21 witness: get_model_schema got an empty list from the discovery query
\* and answered with the not-found error result
C21_Witness ==
    /\ IsToolCall("get_model_schema")
    /\ remote = [kind |-> "ok", data |-> Some(<<>>)]
    /\ Len(sent) = 1
    /\ IsErrorResult
    /\ response.result.text = "Model not found"

-----------------------------------------------------------------------------
(* Properties of add_field: is_object_field (specification Spec) *)

\* the value is_object_field must have in the upsert-field call of the
\* arguments: the one given, else whether the field is a container
ExpectedObjectFlag(arguments) ==
    IF arguments.is_object_field # None
    THEN arguments.is_object_field
    ELSE Some(arguments.field_type \in {"object", "repeated"})

\* C30: every upsert-field call issued by add_field carries is_object_field
\* equal to the caller's explicit value when one is given, and otherwise true
\* exactly when field_type is object or repeated and false for every other
\* field_type.
C30_ObjectFieldDefault ==
    IsToolCall("add_field")
    => \A i \in 1..Len(sent) :
          sent[i].query = "UpsertFieldToModel"
          => sent[i].variables.is_object_field
                = ExpectedObjectFlag(request.params.arguments)

\* C30 witness: add_field of a repeated field without is_object_field sent an
\* upsert-field call with is_object_field true
C30_Witness ==
    /\ IsToolCall("add_field")
    /\ request.params.arguments.field_type = "repeated"
    /\ request.params.arguments.is_object_field = None
    /\ Len(sent) = 1
    /\ sent[1].query = "UpsertFieldToModel"
    /\ sent[1].variables.is_object_field = Some(TRUE)

-----------------------------------------------------------------------------
(* Properties of handleMCPRequest (specification Spec) *)

\* the methods handleMCPRequest answers with the result of a handler
AnsweredMethods ==
    {"initialize", "tools/list", "tools/call", "prompts/list", "prompts/get",
     "resources/list", "resources/read"}

\* the handler the request is routed to throws: a prompt that does not
\* exist, a resource URI that is not a model URI, a resource read whose
\* discovery query fails or finds no model
HandlerThrows ==
    \/ /\ request.method = "prompts/get"
       /\ request.params.name # "confirm_field_type"
    \/ /\ request.method = "resources/read"
       /\ \/ ~IsModelRead
          \/ ~ModelsReturned
          \/ Len(Val(remote.data)) = 0

\* the tool called fails: its remote request failed, or create_model refused
\* the model name
ToolFails ==
    \/ RemoteFailed
    \/ /\ request.params.name = "create_model"
       /\ RefusedModelName(request.params.arguments.model_name)

\* C29: handleMCPRequest answers every request with exactly one JSON-RPC 2.0
\* response carrying the request's id: a result for initialize, tools/list,
\* tools/call, prompts/list, prompts/get, resources/list and resources/read;
\* error code -32601 for any other method; error code -32000 when the routed
\* handler throws; a failing tool inside tools/call is reported as a result
\* with isError = true, not as a JSON-RPC error.
C29_OneResponsePerRequest ==
    request # NoRequest
    => /\ response.jsonrpc = "2.0"
       /\ response.id = request.id
       /\ response.kind \in {"result", "error"}
       /\ request.method \notin AnsweredMethods
          => response.kind = "error" /\ response.code = -32601
       /\ (request.method \in AnsweredMethods /\ HandlerThrows)
          => response.kind = "error" /\ response.code = -32000
       /\ (request.method \in AnsweredMethods /\ ~HandlerThrows)
          => response.kind = "result"
       /\ (request.method = "tools/call" /\ ToolFails)
          => IsErrorResult

\* C29 witness: a tools/call whose remote request failed was answered with a
\* result flagged isError that carries the id of the request
C29_Witness ==
    /\ request.method = "tools/call"
    /\ request.id = 2
    /\ RemoteFailed
    /\ response.id = 2
    /\ response.kind = "result"
    /\ response.result.isError

-----------------------------------------------------------------------------
(* Properties of the worker (specification SpecWorker) *)

\* the header or parameter carries a value
Carries(value) == value # None /\ value # Some(<<>>)

\* the Authorization header is 'Bearer ' followed by a key
IsBearer(value) ==
    /\ value # None
    /\ Len(Val(value)) > 7
    /\ SubSeq(Val(value), 1, 7) = <<"B","e","a","r","e","r"," ">>

\* the API key of a request: the Authorization header after 'Bearer ', else
\* the X-Apito-Key header, else the api_key query parameter, else none
KeyOf(req) ==
    IF IsBearer(req.authorization)
    THEN Some(SubSeq(Val(req.authorization), 8, Len(Val(req.authorization))))
    ELSE IF Carries(req.apiKeyHeader) THEN req.apiKeyHeader
    ELSE IF Carries(req.queryApiKey) THEN req.queryApiKey
    ELSE None

\* the request goes to the SSE endpoint and is not a CORS preflight
ToSseEndpoint(req) ==
    /\ req.method # "OPTIONS"
    /\ Len(req.pathname) >= 4
    /\ SubSeq(req.pathname, Len(req.pathname) - 3, Len(req.pathname))
          = <<"/","s","s","e">>

\* the server that served the request was constructed with its API key
ServedWithKeyOf(req) ==
    fetched.server # 0 => Some(servers[fetched.server].authToken) = KeyOf(req)

\* the request was answered with an error and no server was constructed or
\* put in the cache for it
RefusedUnserved ==
    /\ Val(fetched'.response).kind = "error"
    /\ fetched'.server = 0
    /\ servers' = servers
    /\ serverCache' = serverCache

\* C27 as stated, for every request: the credential used is the
\* Authorization header value after the 'Bearer ' prefix when that header is
\* present with that prefix, otherwise the X-Apito-Key header when present,
\* otherwise the api_key query parameter; when none of the three yields a key
\* the request is answered with an error and no server instance is created
\* or cached.
C27_KeySelectionEveryRequest ==
    /\ [](fetched # NotFetched => ServedWithKeyOf(Val(fetched.request)))
    /\ [][(fetched' # NotFetched /\ fetched' # fetched
              /\ KeyOf(Val(fetched'.request)) = None)
          => RefusedUnserved]_vars

\* C27, amended: for every request to the SSE endpoint other than a CORS
\* preflight, the credential used is the Authorization header value after
\* the 'Bearer ' prefix when that header is present with that prefix,
\* otherwise the X-Apito-Key header when present and not empty, otherwise the
\* api_key query parameter; when none of the three yields a key the request
\* is answered with an error and no server instance is created or cached. A
\* preflight and a request to another path are answered without a key and
\* without a server.
C27_KeySelectionOnSse ==
    /\ [](fetched # NotFetched =>
            /\ ServedWithKeyOf(Val(fetched.request))
            /\ (ToSseEndpoint(Val(fetched.request))
                  /\ KeyOf(Val(fetched.request)) # None) => fetched.server # 0
            /\ ~ToSseEndpoint(Val(fetched.request)) =>
                  /\ fetched.server = 0
                  /\ Val(fetched.response).kind \in {"preflight", "info"})
    /\ [][(fetched' # NotFetched /\ fetched' # fetched
              /\ ToSseEndpoint(Val(fetched'.request))
              /\ KeyOf(Val(fetched'.request)) = None)
          => RefusedUnserved]_vars
    /\ [][(fetched' # NotFetched /\ fetched' # fetched
              /\ ~ToSseEndpoint(Val(fetched'.request)))
          => servers' = servers /\ serverCache' = serverCache]_vars

\* C27 witness: a POST to the SSE endpoint carried a Bearer key, another key
\* in X-Apito-Key and a third source in the query, and was served by a server
\* constructed with the Bearer key
C27_Witness ==
    /\ fetched # NotFetched
    /\ Val(fetched.request).method = "POST"
    /\ Val(fetched.request).authorization
          = Some(<<"B","e","a","r","e","r"," ","a","k","_","1">>)
    /\ Val(fetched.request).apiKeyHeader = Some(<<"a","k","_","2">>)
    /\ Val(fetched.request).queryApiKey # None
    /\ fetched.server # 0
    /\ servers[fetched.server].authToken = <<"a","k","_","1">>
    /\ Val(fetched.response).kind = "rpc"

\* the endpoint of a request: that of the environment with /secured/graphql
\* turned into /system/graphql, the default when none is set
EndpointOf(env) ==
    IF env = Some(OtherEndpoint)
    THEN SubSeq(OtherEndpoint, 1, Len(OtherEndpoint) - Len(SecuredPath)) \o SystemPath
    ELSE DefaultEndpoint

\* C28: after any sequence of worker requests, the server instance serving a
\* request was constructed with exactly that request's API key and endpoint;
\* two requests with the same key and endpoint get the same instance (at most
\* one instance per key/endpoint pair is ever created), and requests with
\* different keys never share an instance or its GraphQL client.
C28_ServerPerCredential ==
    /\ fetched.server # 0
       => /\ Some(servers[fetched.server].authToken) = KeyOf(Val(fetched.request))
          /\ servers[fetched.server].graphqlEndpoint = EndpointOf(fetched.env)
          /\ Val(fetched.response).remoteAs # None
             => Val(Val(fetched.response).remoteAs)
                   = [graphqlEndpoint |-> EndpointOf(fetched.env),
                      authToken |-> Val(KeyOf(Val(fetched.request)))]
    /\ \A i, j \in 1..Len(servers) :
          (/\ servers[i].authToken = servers[j].authToken
           /\ servers[i].graphqlEndpoint = servers[j].graphqlEndpoint) => i = j
    /\ \A e \in serverCache : e.server \in 1..Len(servers)
    /\ \A i \in 1..Len(servers) : \E e \in serverCache : e.server = i

\* C28 witness: two servers were constructed for one API key and two
\* endpoints; a later request with the key and the first endpoint was served
\* by the first server, whose GraphQL client made the remote request
C28_Witness ==
    /\ Len(servers) = 2
    /\ servers[1].authToken = servers[2].authToken
    /\ servers[1].graphqlEndpoint # servers[2].graphqlEndpoint
    /\ fetched.server = 1
    /\ servers[1].client
    /\ ~servers[2].client
    /\ Val(fetched.response).kind = "rpc"
    /\ Val(fetched.response).remoteAs # None

-----------------------------------------------------------------------------
(* Properties of the suggestion list (specification SpecResolver) *)

\* the types getSuggestedTypes may suggest, in order, and the keyword set of
\* each
SuggestedOrder == <<"date", "number", "boolean", "multiline", "media">>
KeywordsOf(type) ==
    CASE type = "date" -> dateKeywords
      [] type = "number" -> numberKeywords
      [] type = "boolean" -> booleanKeywords
      [] type = "multiline" -> multilineKeywords
      [] type = "media" -> mediaKeywords

\* the list has the types of SuggestedOrder whose keyword set the text
\* matches, each once, in that order
IsSuggestionListOf(list, text) ==
    /\ \A i \in 1..Len(list) : \E k \in 1..5 : list[i] = SuggestedOrder[k]
    /\ \A k \in 1..5 :
          (\E i \in 1..Len(list) : list[i] = SuggestedOrder[k])
          <=> Mentions(text, KeywordsOf(SuggestedOrder[k]))
    /\ \A i, j \in 1..Len(list) :
          i < j => \E k, m \in 1..5 :
                      k < m /\ list[i] = SuggestedOrder[k] /\ list[j] = SuggestedOrder[m]

\* C25: for every name, getSuggestedTypes returns a non-empty list that
\* contains exactly the types among date, number, boolean, multiline, media
\* whose keyword set the lower-cased name matches, in that fixed order, and
\* is exactly [text] when none of the five sets matches.
C25_SuggestionList ==
    resolution.op = "getSuggestedTypes"
    => /\ Len(Val(resolution.value)) > 0
       /\ IF \E k \in 1..5 : Mentions(LoweredDef, KeywordsOf(SuggestedOrder[k]))
          THEN IsSuggestionListOf(Val(resolution.value), LoweredDef)
          ELSE Val(resolution.value) = <<"text">>

\* C25 witness: 'count_date' got the suggestions date and number, in that
\* order
C25_Witness ==
    /\ resolution.op = "getSuggestedTypes"
    /\ resolution.fieldDef = <<"c","o","u","n","t","_","d","a","t","e">>
    /\ Val(resolution.value) = <<"date", "number">>

-----------------------------------------------------------------------------
(* Properties of the field tree (specification SpecParser) *)

\* the top-level fields the parser returned, resolved or not
TopFields ==
    IF pop.op \in {"parseField", "resolveParsedField"}
    THEN <<parsed.value>>
    ELSE parsed.value

\* the parser returned fields, which were resolved since
FieldsParsed == pop.op # "none" /\ ~parsed.threw
FieldsResolved ==
    pop.op \in {"resolveParsedField", "resolveParsedFields"} /\ ~parsed.threw

\* the children of a field
KidsOf(field) ==
    IF field.nested_fields = None THEN <<>> ELSE Val(field.nested_fields)

\* the field is tagged as a container
IsContainerType(field) == field.field_type \in {"object", "repeated"}

\* C22: after parseField/parseFields and after any subsequent
\* resolveParsedField, every field with non-empty nested_fields has
\* field_type in {object, repeated}, and every field whose field_type is not
\* object or repeated has no nested_fields.
C22_FieldTreeTypes ==
    FieldsParsed
    => \A i \in 1..Len(TopFields) :
          /\ Len(KidsOf(TopFields[i])) > 0 => IsContainerType(TopFields[i])
          /\ ~IsContainerType(TopFields[i]) => Len(KidsOf(TopFields[i])) = 0
          /\ \A k \in 1..Len(KidsOf(TopFields[i])) :
                KidsOf(KidsOf(TopFields[i])[k]) = <<>>

\* the names of the fields are pairwise distinct
DistinctNames(fields) ==
    \A i, j \in 1..Len(fields) : i # j => fields[i].name # fields[j].name

\* C23: in every field tree produced by the parser, the names of the children
\* of one container field are pairwise distinct, and the top-level fields
\* returned by parseFields have pairwise distinct names.
C23_SiblingNamesDistinct ==
    (pop.op \in {"parseField", "parseFields"} /\ ~parsed.threw)
    => /\ DistinctNames(TopFields)
       /\ \A i \in 1..Len(TopFields) : DistinctNames(KidsOf(TopFields[i]))

\* the definition contains a bracket pair and a brace pair
IsMixed(def) == HasSyntax(def, "[", "]") /\ HasSyntax(def, "{", "}")

\* parseField returned an array field
ReturnedArray ==
    /\ ~parsed.threw
    /\ parsed.value.field_type = "repeated"
    /\ parsed.value.is_array = Some(TRUE)
    /\ parsed.value.is_object # Some(TRUE)

\* C24 as stated: for every definition that contains both a bracket pair
\* '[...]' and a brace pair '{...}', parseField returns an array field
\* (field_type repeated, is_array true) and never an object field.
C24_MixedIsArray ==
    (pop.op = "parseField" /\ IsMixed(fieldDefs[1])) => ReturnedArray

\* t is a name of word characters, white space, '[', one or more characters
\* other than ']', and a final ']'
IsNamedArrayForm(t) ==
    \E n \in 1..Len(t), g \in 1..Len(t) :
        /\ n <= g
        /\ \A i \in 1..n : IsWordChar(t[i])
        /\ \A i \in (n + 1)..g : t[i] = " "
        /\ Len(t) >= g + 3
        /\ t[g + 1] = "["
        /\ t[Len(t)] = "]"
        /\ \A i \in (g + 2)..(Len(t) - 1) : t[i] # "]"

\* the definition, without the white space around it, has that form
IsArrayDefinition(def) ==
    \E a, b \in 1..Len(def) :
        /\ IsTrimOf(SubSeq(def, a, b), def)
        /\ IsNamedArrayForm(SubSeq(def, a, b))

\* C24, amended: a definition that contains both a bracket pair and a brace
\* pair is parsed by the array rule and never returned as an object field:
\* parseField returns an array field (field_type repeated, is_array true)
\* when the definition is a name followed by one bracket pair that ends it,
\* the braces lying inside the brackets, and fails with the array
\* malformed-definition error for every other mixed definition.
C24_MixedTakesArrayRule ==
    (pop.op = "parseField" /\ IsMixed(fieldDefs[1]))
    => IF IsArrayDefinition(fieldDefs[1])
       THEN ReturnedArray
       ELSE parsed.threw /\ parsed.message = "Invalid array field format"

\* C24 witness: 'a[{}]' was parsed into an array field with one child
C24_Witness ==
    /\ pop.op = "parseField"
    /\ fieldDefs[1] = <<"a","[","{","}","]">>
    /\ ReturnedArray
    /\ Len(KidsOf(parsed.value)) = 1

\* the types of the field are those resolveFieldType gives the lower-cased
\* name
TypedAsLowerCased(field) ==
    /\ field.field_type
          = resolveFieldType(toLowerCase(field.name),
                             Some(toLowerCase(field.name))).field_type
    /\ field.input_type
          = resolveFieldType(toLowerCase(field.name),
                             Some(toLowerCase(field.name))).input_type

\* C26: for every field name, the field_type and input_type that
\* resolveParsedField assigns to the field (and to each nested child) equal
\* those obtained by resolving the lower-cased form of the same name; the
\* letter case of a name never changes its resolved type.
C26_CaseInsensitiveTypes ==
    FieldsResolved
    => \A i \in 1..Len(TopFields) :
          /\ TypedAsLowerCased(TopFields[i])
          /\ \A k \in 1..Len(KidsOf(TopFields[i])) :
                TypedAsLowerCased(KidsOf(TopFields[i])[k])

=============================================================================
